---- MODULE Spec2Model ----
(***************************************************************************)
(* Options scanner: the scan pipeline (ApiClient + OptionsScanner.scan).   *)
(*                                                                         *)
(* One scan() invocation is modelled as the event loop runs it: every      *)
(* action is the code that runs between two suspension points (an await on *)
(* fetch(), on sleep() or on a promise).  The provider is the environment: *)
(* it answers each request in flight with a status and, for a 200, with a  *)
(* page (a results array or none, and a next_url or none).                 *)
(***************************************************************************)
EXTENDS Integers, Sequences, FiniteSets, TLC

(* ---------------- bounds of the model ---------------- *)
MaxTickers == 2
MaxPages == 2
MaxPerPage == 2

(* ---------------- program constants ---------------- *)
CONCURRENCY == 2
MAX_RETRIES == 3
REQUEST_DELAY == 350
RETRY_DELAY == 1000
PRICE_MIN == 5
PRICE_MAX == 25

(* ---------------- values ---------------- *)
Tickers == 1..MaxTickers
NoError == -1
NetErr == 0
NoResults == -1
NoTicker == 0
Null == -1
NoResult == [none |-> TRUE]
\* params.tickers: null, or an array of ticker symbols
NullTickers == [kind |-> "null", items |-> <<>>]
ArrayOf(items) == [kind |-> "array", items |-> items]
ErrorStatuses == {NetErr, 401, 403, 404, 429, 500}

Min(a, b) == IF a < b THEN a ELSE b

RECURSIVE Pow2(_)
Pow2(n) == IF n <= 0 THEN 1 ELSE 2 * Pow2(n - 1)

RECURSIVE Flatten(_)
Flatten(ss) == IF ss = <<>> THEN <<>> ELSE Head(ss) \o Flatten(Tail(ss))

\* Math.round((current / total) * 100): round half up
MathRoundPct(current, total) == (200 * current + total) \div (2 * total)

\* as chunk, with slices one element too long
chunk_Oversize(array, size) ==
  LET n == Len(array)
      starts == {i \in 0..(n - 1) : i % (size + 1) = 0}
  IN [k \in 1..Cardinality(starts) |->
        SubSeq(array, (k - 1) * (size + 1) + 1, Min((k - 1) * (size + 1) + size + 1, n))]

\* utils.js chunk(): slices of `size` elements taken at i = 0, size, 2*size, ...
chunk(array, size) ==
  LET n == Len(array)
      starts == {i \in 0..(n - 1) : i % size = 0}
  IN [k \in 1..Cardinality(starts) |->
        SubSeq(array, (k - 1) * size + 1, Min((k - 1) * size + size, n))]

(***************************************************************************)
(* State.                                                                  *)
(*   universe  the scanner's configured universe (ticker objects)          *)
(*   paramTickers, tickers   scanParams.tickers and tickersToScan of the   *)
(*       scan() invocation in progress                                     *)
(*   concurrency, maxRetries  the client's options (both are replaced by   *)
(*       the default when falsy, so they are at least 1)                   *)
(*   scanPc    where scan() is: idle, fetching (awaiting the client),      *)
(*             complete                                                    *)
(*   apiPc     where getOptionsChainForTickers is: idle, awaitBatch        *)
(*             (Promise.all), batchDelay (sleep), returned                 *)
(*   batchIdx, processedCount, allResults, errors   its locals             *)
(*   pc[t]     where ticker t's map callback is: idle, await (a request is *)
(*             in flight), backoff, pageDelay (sleeps), settled,           *)
(*             collected                                                   *)
(*   attempt[t], page[t], acc[t]   attempt, url and allResults of the      *)
(*             ticker's _fetchWithRetry / _fetchAllPages calls             *)
(*   taskResult[t]   what the settled callback returned                    *)
(* Observations of the traffic, dropped when the batch is collected:       *)
(*   reqs[t], fails[t], waits[t]   requests issued, retryable failures     *)
(*             received and backoff sleeps started for the current URL     *)
(*   lastStatus[t], lastNext[t]    status and next_url of the response     *)
(*             last received, until the next request is issued             *)
(*   served[t]   the contracts the provider has sent for the ticker        *)
(*   fetched[t]  the URLs (page numbers) handed to _fetchWithRetry         *)
(*   sleepMs[t]  the duration of the sleep in progress                     *)
(* The cache (CacheManager over one IndexedDB object store):               *)
(*   hasIndexedDB   whether the platform offers window.indexedDB           *)
(*   db, isAvailable   the manager's fields                                *)
(*   store     the records of the 'scans' object store, one per key (id)   *)
(*   clock     Date.now(), in ms                                           *)
(*   call[c]   the cache operation caller c is in, the request it awaits   *)
(*             and its locals                                              *)
(*   queue     the callers with a request pending, in the order issued     *)
(*   returned[c]   what c's last call returned                             *)
(*             (with the snapshots it deleted, and the time its pruning    *)
(*             began)                                                      *)
(* Observations of the cache:                                              *)
(*   storeBefore[c]   the store as it was when c called saveScan, until c's *)
(*             next call                                                   *)
(*   lastSave  id and arguments of the last successful saveScan, until the *)
(*             next write to the store                                     *)
(*   saveHistory   the successful saves so far, while nothing but plain    *)
(*             saves has written to the store                              *)
(* Observations kept for the whole scan:                                   *)
(*   batchDelays   inter-batch sleeps started                              *)
(*   servedOk      the contracts sent to the tickers that ended on a 200   *)
(*   servedFailed  whether contracts were sent to a ticker that failed     *)
(*   apiLog, scanLog   the calls of the client's and of scan()'s           *)
(*             onProgress                                                  *)
(*   rawContracts, result   scan()'s rawContracts and returned ScanResult  *)
(* The processing of one provider payload, step by step:                   *)
(*   rawInput      the raw contracts handed to _normalizeContract          *)
(*   filterChain   the predicates handed to applyFilters                   *)
(*   normalizedContracts, filteredContracts   scan()'s locals of the same  *)
(*             names                                                       *)
(*   filteredAgain      applyFilters over filteredContracts, same chain    *)
(*   filteredReordered  applyFilters over normalizedContracts, the chain   *)
(*             reversed                                                    *)
(*   processed     the steps taken so far                                  *)
(*   scanParams    scan()'s merged parameters, as createFilterChain and    *)
(*             _sortContracts read them                                    *)
(*   builtChain    what createFilterChain returned                         *)
(*   sortedResult  scan()'s sortedContracts                                *)
(* The scanner's universe as its callers see it:                           *)
(*   held      the array a caller got from getUniverse, and whether it is  *)
(*             the scanner's own array                                     *)
(*   removedTickers   the tickers removed from the universe and not added  *)
(*             since                                                       *)
(* The page (app.js):                                                      *)
(*   scanner   whether the module's scanner has been created               *)
(*   scanBtnDisabled   the disabled attribute of the Scan button           *)
(*   forceRefresh      the module's flag of that name                      *)
(*   runPc[i]  where the i-th invocation of runScan is: idle (not made),   *)
(*             scanning (awaiting scanner.scan), saving (awaiting          *)
(*             cacheManager.saveScan), done                                *)
(*   currentResults    the invocation whose results the page holds         *)
(***************************************************************************)
VARIABLES
  universe, paramTickers, tickers, concurrency, maxRetries,
  scanPc, apiPc, batchIdx, processedCount, allResults, errors,
  pc, attempt, page, acc, taskResult,
  reqs, fails, waits, lastStatus, lastNext, served, fetched, sleepMs, batchDelays,
  servedOk, servedFailed, apiLog, scanLog, rawContracts, result,
  hasIndexedDB, db, isAvailable, store, clock, call, queue, returned,
  storeBefore, lastSave, saveHistory,
  rawInput, filterChain, normalizedContracts, filteredContracts, filteredAgain,
  filteredReordered, processed,
  scanParams, builtChain, sortedResult,
  held, removedTickers,
  scanner, scanBtnDisabled, forceRefresh, runPc, currentResults

cfgVars == <<universe, paramTickers, tickers, concurrency, maxRetries>>
apiVars == <<apiPc, batchIdx, processedCount, allResults, errors>>
taskVars == <<pc, attempt, page, acc, taskResult>>
obsVars == <<reqs, fails, waits, lastStatus, lastNext, served, fetched, sleepMs>>
logVars == <<apiLog, scanLog>>
scanVars == <<cfgVars, scanPc, apiVars, taskVars, obsVars, batchDelays, servedOk, servedFailed,
              logVars, rawContracts, result>>
cacheVars == <<hasIndexedDB, db, isAvailable, store, clock, call, queue, returned,
               storeBefore, lastSave, saveHistory>>
chainVars == <<scanParams, builtChain, sortedResult>>
pipeVars == <<rawInput, filterChain, normalizedContracts, filteredContracts, filteredAgain,
              filteredReordered, processed, chainVars>>
editVars == <<held, removedTickers>>
uiVars == <<scanner, scanBtnDisabled, forceRefresh, runPc, currentResults>>
restVars == <<pipeVars, editVars, uiVars>>
vars == <<scanVars, cacheVars, restVars>>

tickerBatches == chunk(tickers, concurrency)

(* ---------------- the provider's pages (environment) ---------------- *)
\* What a 200 response can carry: no results array, or an array of MaxPerPage
\* contracts (an empty array takes the same branch as an array and pushes nothing).
PageKinds == {NoResults, MaxPerPage}

\* last_trade.price (in cents) of the i-th contract of page p
LastPrice(p, i) == IF i > 1 THEN 30 ELSE IF p % 2 = 1 THEN 20 ELSE 10

\* last_quote.ask (in cents); the second contract of a page carries no quote
AskPrice(p, i) == IF i > 1 THEN Null ELSE LastPrice(p, i) + 5

\* response.results of page p of ticker t's chain, as the provider sends it
PageResults(t, p, kind) ==
  [i \in 1..kind |->
     [id |-> <<t, p, i>>, type |-> "call", last |-> LastPrice(p, i),
      ask |-> AskPrice(p, i), _ticker |-> NoTicker]]

\* the contracts a response carries, as the provider sent them
Payload(t, p, kind) == IF kind = NoResults THEN <<>> ELSE PageResults(t, p, kind)

(* ---------------- ApiClient._fetchWithRetry ---------------- *)
\* as RetryLoopCond, with one attempt too many
RetryLoopCond_OneMore(a) == a <= maxRetries

\* as RetryLoopCond, giving up one attempt early
RetryLoopCond_OneLess(a) == a + 1 < maxRetries

\* for (let attempt = 0; attempt < this.maxRetries; attempt++)
RetryLoopCond(a) == a < maxRetries

\* if (error.status === 401 || error.status === 403) throw error
IsAuthError(status) == status = 401 \/ status = 403

\* as IsRetryable, retrying every client error as well
IsRetryable_ClientErrors(status) == status = 429 \/ status >= 400

\* the two branches that sleep and `continue`
IsRetryable(status) == status = 429 \/ status >= 500

\* the delay of the backoff sleep
BackoffDelay(status, a) ==
  IF status = 429 THEN RETRY_DELAY * Pow2(a + 1) ELSE RETRY_DELAY * Pow2(a)

(* ---------------- ApiClient._fetchAllPages ---------------- *)
\* as PushResults, putting the new page in front of the earlier ones
PushResults_Prepend(all, t, p, kind) ==
  IF kind # NoResults THEN PageResults(t, p, kind) \o all ELSE all

\* if (response.results && Array.isArray(response.results)) allResults.push(...)
PushResults(all, t, p, kind) ==
  IF kind # NoResults THEN all \o PageResults(t, p, kind) ELSE all

\* url = response.next_url || null  (0 stands for null)
NextUrl(response) == response.next

(* ---------------- ApiClient.getOptionsChainForTickers ---------------- *)
\* results.forEach(r => { if (!r._ticker) r._ticker = ticker; })
AttachTicker(results, t) ==
  [i \in 1..Len(results) |->
     IF results[i]._ticker = NoTicker THEN [results[i] EXCEPT !._ticker = t]
     ELSE results[i]]

\* as InBatch, awaiting every ticker there is
InBatch_AllTickers(k) == Tickers

InBatch(k) == {tickerBatches[k][i] : i \in 1..Len(tickerBatches[k])}

\* tickerBatches.indexOf(batch) < tickerBatches.length - 1
HasNextBatch(k) == k - 1 < Len(tickerBatches) - 1

\* as CollectResults, giving up the batch at its first failed ticker
CollectResults_StopAtError(batch) ==
  LET firstErr == {i \in 1..Len(batch) : taskResult[batch[i]].error # NoError}
  IN Flatten([i \in 1..Len(batch) |->
                IF \E e \in firstErr : e <= i THEN <<>>
                ELSE taskResult[batch[i]].results])

\* the loop over batchResults: allResults.push(...results) unless error
CollectResults(batch) ==
  Flatten([i \in 1..Len(batch) |->
             IF taskResult[batch[i]].error # NoError THEN <<>>
             ELSE taskResult[batch[i]].results])

CollectErrors(batch) ==
  LET RECURSIVE Go(_)
      Go(i) == IF i > Len(batch) THEN <<>>
               ELSE (IF taskResult[batch[i]].error # NoError
                     THEN <<[ticker |-> batch[i], error |-> taskResult[batch[i]].error]>>
                     ELSE <<>>) \o Go(i + 1)
  IN Go(1)

\* as FetchingEvents, counting each ticker of the batch as it starts
FetchingEvents_Counting(batch, count, total) ==
  [i \in 1..Len(batch) |->
     [ticker |-> batch[i], current |-> count + i, total |-> total, status |-> "fetching"]]

\* onProgress(ticker, processedCount + 1, tickers.length, 'fetching'), one per ticker of the batch
FetchingEvents(batch, count, total) ==
  [i \in 1..Len(batch) |->
     [ticker |-> batch[i], current |-> count + 1, total |-> total, status |-> "fetching"]]

\* as CompleteEvents, with processedCount incremented once per batch
CompleteEvents_OncePerBatch(batch, count) ==
  [i \in 1..Len(batch) |->
     [ticker |-> batch[i], current |-> count + 1, total |-> Len(tickers), status |-> "complete"]]

\* processedCount++; onProgress(ticker, processedCount, tickers.length, 'complete')
CompleteEvents(batch, count) ==
  [i \in 1..Len(batch) |->
     [ticker |-> batch[i], current |-> count + i, total |-> Len(tickers), status |-> "complete"]]

(* ---------------- OptionsScanner.scan ---------------- *)
\* the universes the scanner is configured with: ticker objects, no ticker twice
Universes == {[i \in 1..n |-> [ticker |-> i]] : n \in 0..MaxTickers}

\* the values params.tickers takes: absent, an empty array, or one ticker
\* (runScan passes the test ticker alone, or null)
TickerParams == {NullTickers, ArrayOf(<<>>)} \cup {ArrayOf(<<t>>) : t \in Tickers}

\* this.universe.map(u => u.ticker)
UniverseTickers(u) == [i \in 1..Len(u) |-> u[i].ticker]

\* as TickersToScan, taking an empty override for a list of no tickers
TickersToScan_EmptyOverride(p, u) ==
  IF p.kind # "null" THEN p.items ELSE UniverseTickers(u)

\* as TickersToScan, scanning the universe's other tickers after the override
TickersToScan_Append(p, u) ==
  IF p.kind # "null" /\ Len(p.items) > 0
  THEN p.items \o SelectSeq(UniverseTickers(u),
                            LAMBDA t : \A i \in 1..Len(p.items) : p.items[i] # t)
  ELSE UniverseTickers(u)

\* if (scanParams.tickers && scanParams.tickers.length > 0) tickersToScan =
\* scanParams.tickers; else tickersToScan = this.universe.map(u => u.ticker)
TickersToScan(p, u) ==
  IF p.kind # "null" /\ Len(p.items) > 0 THEN p.items ELSE UniverseTickers(u)

\* the callback scan() hands to getOptionsChainForTickers
ProgressCallback(e) ==
  [phase |-> "fetching", progress |-> MathRoundPct(e.current, e.total), ticker |-> e.ticker]

ScanEvents(es) == [i \in 1..Len(es) |-> ProgressCallback(es[i])]

PhaseEvent(phase, progress) == [phase |-> phase, progress |-> progress, ticker |-> NoTicker]

\* _normalizeContract, the fields the default filter chain and the sort read
NormalizeContract(raw) ==
  [contractTicker |-> raw.id, underlying |-> raw._ticker, type |-> raw.type,
   last |-> raw.last, ask |-> raw.ask]

\* filters.js priceRange(min, max, 'last')
priceRange(c) == IF c.last = Null \/ c.last = 0 THEN FALSE
                 ELSE c.last >= PRICE_MIN /\ c.last <= PRICE_MAX

\* filters.js hasPrice('last')
hasPrice(c) == c.last # Null /\ c.last > 0

\* filters.js contractType('call')
contractType(c) == c.type = "call"

\* applyFilters with the chain createFilterChain builds from CONFIG.DEFAULTS
\* (iv, delta, volume and open interest are absent from these payloads)
ApplyFilters(contracts) ==
  SelectSeq(contracts, LAMBDA c : priceRange(c) /\ hasPrice(c) /\ contractType(c))

\* the comparator of _sortContracts for field 'ask', direction 'asc'
SortCompare(a, b) ==
  IF a.ask = Null /\ b.ask = Null THEN 0
  ELSE IF a.ask = Null THEN 1
  ELSE IF b.ask = Null THEN -1
  ELSE a.ask - b.ask

\* [...contracts].sort(compare): a stable sort
RECURSIVE SortContracts(_)
SortContracts(contracts) ==
  IF contracts = <<>> THEN <<>>
  ELSE LET n == Len(contracts)
           x == contracts[n]
           sorted == SortContracts(SubSeq(contracts, 1, n - 1))
           k == Cardinality({j \in 1..Len(sorted) : SortCompare(sorted[j], x) <= 0})
       IN SubSeq(sorted, 1, k) \o <<x>> \o SubSeq(sorted, k + 1, Len(sorted))

\* the ScanResult scan() returns
BuildResult(raw) ==
  LET sortedContracts == SortContracts(ApplyFilters([i \in 1..Len(raw) |-> NormalizeContract(raw[i])]))
  IN [contracts |-> sortedContracts,
      stats |-> [totalFetched |-> Len(raw), afterFilters |-> Len(sortedContracts),
                 tickersScanned |-> Len(tickers)]]

(* ---------------- CacheManager: values and helpers ---------------- *)
\* CACHE_CONFIG.maxScans (the program keeps 10; the model keeps fewer)
maxScans == 3

\* bounds of the clock: ms ticks and week jumps the model lets pass
MaxClockMs == 2
MaxWeeks == 1

MB == 1024 * 1024
maxSizeBytes == 50 * MB
hardExpiryDays == 7
softExpiryHours == 4
HardExpiryMs == hardExpiryDays * 24 * 60 * 60 * 1000
SoftExpiryMs == softExpiryHours * 60 * 60 * 1000

\* the callers whose cache operations may be in progress
Callers == {1, 2}

NoRecord == [id |-> Null]

\* a normalized contract as scan() returns it
Contract(n, ask) ==
  [contractTicker |-> <<1, 1, n>>, underlying |-> 1, type |-> "call", last |-> 20, ask |-> ask]

\* the arguments of saveScan: results of scan() (with the byte length of
\* JSON.stringify(results.contracts)), the scan parameters, the tickers scanned
SaveInputs ==
  { [results |-> [contracts |-> <<Contract(1, 25)>>,
                  stats |-> [totalFetched |-> 2, afterFilters |-> 1, tickersScanned |-> 1],
                  jsonBytes |-> 10 * MB],
     params |-> [contractType |-> "call", priceMin |-> 5, tickers |-> ArrayOf(<<1>>)],
     universe |-> ArrayOf(<<1>>)],
    [results |-> [contracts |-> <<Contract(1, Null), Contract(2, 25)>>,
                  stats |-> [totalFetched |-> 4, afterFilters |-> 2, tickersScanned |-> 2],
                  jsonBytes |-> 30 * MB],
     params |-> [contractType |-> "put", priceMin |-> Null, tickers |-> NullTickers],
     universe |-> ArrayOf(<<1, 2>>)],
    [results |-> [contracts |-> <<>>,
                  stats |-> [totalFetched |-> 0, afterFilters |-> 0, tickersScanned |-> 0],
                  jsonBytes |-> 60 * MB],
     params |-> [contractType |-> "call", priceMin |-> Null, tickers |-> NullTickers],
     universe |-> NullTickers] }

\* what a finished call handed to its caller
Ret(kind, value) == [kind |-> kind, value |-> value]
NotReturned ==
  [op |-> "none", key |-> Null, kind |-> "none", value |-> Null,
   unavailable |-> FALSE, failed |-> FALSE, evicted |-> {}, began |-> Null]

NoInput == [results |-> NoResult]

IdleCall ==
  [op |-> "none", pc |-> "idle", phase |-> "none", input |-> NoInput, rec |-> NoRecord, key |-> Null,
   oldest |-> NoRecord, scans |-> <<>>, totalSize |-> 0, removed |-> 0, evicted |-> {},
   began |-> Null]

NoSave == [id |-> Null]

\* saveHistory once a write other than a successful save (with evictions for
\* the count only) has happened: the saves are no longer counted
OtherWrites == [n |-> 0, plain |-> FALSE]

\* as BuildScanRecord, forgetting the tickers scanned
BuildScanRecord_NoUniverse(now, input) ==
  [id |-> now, timestamp |-> now,
   params |-> input.params,
   universe |-> <<>>,
   results |-> [contracts |-> input.results.contracts, stats |-> input.results.stats],
   size |-> input.results.jsonBytes]

\* saveScan: const id = Date.now(); const timestamp = new Date().toISOString();
\* size; scanRecord = {id, timestamp, label, params: {...params},
\* universe: universe || [], results: {contracts, stats}, size}
\* (both clock reads fall in the same ms; the label is left out)
BuildScanRecord(now, input) ==
  [id |-> now, timestamp |-> now,
   params |-> input.params,
   universe |-> IF input.universe.kind = "null" THEN <<>> ELSE input.universe.items,
   results |-> [contracts |-> input.results.contracts, stats |-> input.results.stats],
   size |-> input.results.jsonBytes]

StoredIds(S) == {r.id : r \in S}

\* store.put(data): the record takes the place of the one with its key
PutRecord(S, rec) == {r \in S : r.id # rec.id} \cup {rec}

\* store.delete(key)
\* as DeleteKey, taking the older snapshots along
DeleteKey_AndOlder(S, key) == {r \in S : r.id > key}

DeleteKey(S, key) == {r \in S : r.id # key}

\* store.get(key): the record, or undefined
GetRecord(S, key) ==
  IF key \in StoredIds(S) THEN Ret("record", CHOOSE r \in S : r.id = key)
  ELSE Ret("undefined", Null)

\* store.getAll(): the records in ascending key order
RECURSIVE GetAllRecords(_)
GetAllRecords(S) ==
  IF S = {} THEN <<>>
  ELSE LET first == CHOOSE r \in S : \A o \in S : r.id <= o.id
       IN <<first>> \o GetAllRecords(S \ {first})

\* scans.sort((a, b) => new Date(a.timestamp) - new Date(b.timestamp)): stable
RECURSIVE SortOldestFirst(_)
SortOldestFirst(scans) ==
  IF scans = <<>> THEN <<>>
  ELSE LET n == Len(scans)
           x == scans[n]
           sorted == SortOldestFirst(SubSeq(scans, 1, n - 1))
           k == Cardinality({j \in 1..Len(sorted) : sorted[j].timestamp - x.timestamp <= 0})
       IN SubSeq(sorted, 1, k) \o <<x>> \o SubSeq(sorted, k + 1, Len(sorted))

\* scans.sort((a, b) => new Date(b.timestamp) - new Date(a.timestamp)): stable
RECURSIVE SortNewestFirst(_)
SortNewestFirst(scans) ==
  IF scans = <<>> THEN <<>>
  ELSE LET n == Len(scans)
           x == scans[n]
           sorted == SortNewestFirst(SubSeq(scans, 1, n - 1))
           k == Cardinality({j \in 1..Len(sorted) : x.timestamp - sorted[j].timestamp <= 0})
       IN SubSeq(sorted, 1, k) \o <<x>> \o SubSeq(sorted, k + 1, Len(sorted))

\* scans.reduce((sum, scan) => sum + (scan.size || 0), 0)
RECURSIVE SumSizes(_)
SumSizes(scans) == IF scans = <<>> THEN 0 ELSE Head(scans).size + SumSizes(Tail(scans))

\* _isStale / _isExpired
\* as IsStale, with the hard-expiry threshold
IsStale_HardExpiry(timestamp, now) == now - timestamp > HardExpiryMs

IsStale(timestamp, now) == now - timestamp > SoftExpiryMs
\* as IsExpired, the threshold itself counted as expired
IsExpired_AtThreshold(timestamp, now) == now - timestamp >= HardExpiryMs

IsExpired(timestamp, now) == now - timestamp > HardExpiryMs

\* the metadata entry listScans returns for a snapshot
ScanMetadata(scan, now) ==
  [id |-> scan.id, timestamp |-> scan.timestamp,
   contractCount |-> Len(scan.results.contracts), size |-> scan.size,
   isStale |-> IsStale(scan.timestamp, now), isExpired |-> IsExpired(scan.timestamp, now),
   params |-> scan.params]

\* what each operation returns at `if (!this.isAvailable)`
UnavailableValue(op) ==
  IF op \in {"saveScan", "loadScan", "getLatestScan"} THEN Ret("null", Null)
  ELSE IF op = "listScans" THEN Ret("list", <<>>)
  ELSE IF op \in {"deleteScan", "clearAll"} THEN Ret("bool", FALSE)
  ELSE IF op = "pruneExpired" THEN Ret("count", 0)
  ELSE Ret("stats", [available |-> FALSE, scanCount |-> 0, totalSize |-> 0])

\* as CatchValue, with deleteScan and clearAll letting the error through
CatchValue_Rethrow(op) ==
  IF op \in {"saveScan", "loadScan", "getLatestScan"} THEN Ret("null", Null)
  ELSE IF op = "listScans" THEN Ret("list", <<>>)
  ELSE IF op \in {"deleteScan", "clearAll"} THEN Ret("throw", Null)
  ELSE IF op = "pruneExpired" THEN Ret("count", 0)
  ELSE IF op = "init" THEN Ret("bool", FALSE)
  ELSE Ret("stats", [available |-> FALSE, scanCount |-> 0, totalSize |-> 0])

\* what each operation returns from its catch block
CatchValue(op) ==
  IF op \in {"saveScan", "loadScan", "getLatestScan"} THEN Ret("null", Null)
  ELSE IF op = "listScans" THEN Ret("list", <<>>)
  ELSE IF op \in {"deleteScan", "clearAll"} THEN Ret("bool", FALSE)
  ELSE IF op = "pruneExpired" THEN Ret("count", 0)
  ELSE IF op = "init" THEN Ret("bool", FALSE)
  ELSE Ret("stats", [available |-> FALSE, scanCount |-> 0, totalSize |-> 0])

(* ---------------- initial state ---------------- *)
ScannerIdle ==
  /\ paramTickers = NullTickers
  /\ tickers = <<>>
  /\ concurrency \in 1..CONCURRENCY
  /\ maxRetries \in 1..MAX_RETRIES
  /\ scanPc = "idle"
  /\ apiPc = "idle"
  /\ batchIdx = 0
  /\ processedCount = 0
  /\ allResults = <<>>
  /\ errors = <<>>
  /\ pc = [t \in Tickers |-> "idle"]
  /\ attempt = [t \in Tickers |-> 0]
  /\ page = [t \in Tickers |-> 0]
  /\ acc = [t \in Tickers |-> <<>>]
  /\ taskResult = [t \in Tickers |-> [results |-> <<>>, error |-> NoError]]
  /\ reqs = [t \in Tickers |-> 0]
  /\ fails = [t \in Tickers |-> 0]
  /\ waits = [t \in Tickers |-> 0]
  /\ lastStatus = [t \in Tickers |-> NoError]
  /\ lastNext = [t \in Tickers |-> 0]
  /\ served = [t \in Tickers |-> <<>>]
  /\ fetched = [t \in Tickers |-> <<>>]
  /\ sleepMs = [t \in Tickers |-> 0]
  /\ batchDelays = 0
  /\ servedOk = <<>>
  /\ servedFailed = FALSE
  /\ apiLog = <<>>
  /\ scanLog = <<>>
  /\ rawContracts = <<>>
  /\ result = NoResult

ScannerInit == universe \in Universes /\ ScannerIdle

\* an array parameter that is null or absent
NoArray == [kind |-> "null", items |-> <<>>]

\* a params object without any of the parameters createFilterChain and
\* _sortContracts read ("" stands for an absent string)
NoParams ==
  [priceMin |-> Null, priceMax |-> Null, priceField |-> "", dteMin |-> Null, dteMax |-> Null,
   ivMin |-> Null, ivMax |-> Null, deltaMin |-> Null, deltaMax |-> Null,
   minOpenInterest |-> Null, minVolume |-> Null, maxSpreadPct |-> Null, contractType |-> "",
   industries |-> NoArray, countries |-> NoArray, sortBy |-> "ask", sortDir |-> "asc"]

ChainIdle == scanParams = NoParams /\ builtChain = <<>> /\ sortedResult = <<>>

\* no payload is being processed
ProcessingIdle ==
  /\ ChainIdle
  /\ rawInput = <<>>
  /\ filterChain = <<>>
  /\ normalizedContracts = <<>>
  /\ filteredContracts = <<>>
  /\ filteredAgain = <<>>
  /\ filteredReordered = <<>>
  /\ processed = {}

\* no caller holds the universe, no ticker has been removed
NotHeld == [shared |-> FALSE, items |-> <<>>]
UniverseUntouched == held = NotHeld /\ removedTickers = {}

\* the page after initialisation: no runScan has been invoked
MaxRuns == 3
Runs == 1..MaxRuns
PageIdle ==
  /\ scanner = TRUE
  /\ scanBtnDisabled = FALSE
  /\ forceRefresh = FALSE
  /\ runPc = [i \in Runs |-> "idle"]
  /\ currentResults = 0

\* new CacheManager() over a new database; the clock reads some instant
CacheManagerInit ==
  /\ hasIndexedDB \in BOOLEAN
  /\ db = "null"
  /\ isAvailable = FALSE
  /\ store = {}
  /\ clock = 0
  /\ call = [c \in Callers |-> IdleCall]
  /\ queue = <<>>
  /\ returned = [c \in Callers |-> NotReturned]
  /\ storeBefore = [c \in Callers |-> {}]
  /\ lastSave = NoSave
  /\ saveHistory = [n |-> 0, plain |-> TRUE]

Init ==
  ScannerInit /\ CacheManagerInit /\ hasIndexedDB /\ ProcessingIdle /\ UniverseUntouched /\ PageIdle

(* ---------------- actions ---------------- *)
\* batch.map(async ticker => ...) up to each ticker's first await:
\* the 'fetching' callback, then getOptionsChain -> _fetchAllPages ->
\* _fetchWithRetry -> _fetch, which issues the request of page 1.
\* `list` is the tickers argument of getOptionsChainForTickers.
StartBatch(list, k, log) ==
  LET batch == chunk(list, concurrency)[k]
      B == {batch[i] : i \in 1..Len(batch)}
      events == FetchingEvents(batch, processedCount, Len(list))
  IN /\ batchIdx' = k
     /\ apiPc' = "awaitBatch"
     /\ pc' = [t \in Tickers |-> IF t \in B THEN "await" ELSE pc[t]]
     /\ attempt' = [t \in Tickers |-> IF t \in B THEN 0 ELSE attempt[t]]
     /\ page' = [t \in Tickers |-> IF t \in B THEN 1 ELSE page[t]]
     /\ fetched' = [t \in Tickers |-> IF t \in B THEN <<1>> ELSE fetched[t]]
     /\ reqs' = [t \in Tickers |-> IF t \in B THEN 1 ELSE reqs[t]]
     /\ apiLog' = apiLog \o events
     /\ scanLog' = log \o ScanEvents(events)
     /\ UNCHANGED <<acc, taskResult, fails, waits, lastStatus, lastNext, served, sleepMs>>

\* scan(): merge params, resolve tickers, report 'fetching' 0, call
\* getOptionsChainForTickers, which chunks the tickers and starts batch 1
Scan ==
  /\ scanPc = "idle"
  /\ scanPc' = "fetching"
  /\ \E p \in TickerParams :
       /\ paramTickers' = p
       /\ tickers' = TickersToScan(p, universe)
  /\ UNCHANGED <<universe, concurrency, maxRetries, processedCount, allResults, errors,
                 batchDelays, servedOk, servedFailed, rawContracts, result, cacheVars, restVars>>
  /\ IF Len(chunk(tickers', concurrency)) > 0
     THEN StartBatch(tickers', 1, scanLog \o <<PhaseEvent("fetching", 0)>>)
     ELSE /\ apiPc' = "returned"
          /\ scanLog' = scanLog \o <<PhaseEvent("fetching", 0)>>
          /\ UNCHANGED <<batchIdx, taskVars, obsVars, apiLog>>

\* the map callback's return / catch: the ticker's promise settles
Settle(t, results, error) ==
  /\ pc' = [pc EXCEPT ![t] = "settled"]
  /\ taskResult' = [taskResult EXCEPT ![t] = [results |-> results, error |-> error]]

\* fetch() answers 200: _fetch returns the JSON, _fetchWithRetry returns it,
\* _fetchAllPages pushes the results and follows next_url or returns
FetchResponseOk(t) ==
  /\ pc[t] = "await"
  /\ \E kind \in PageKinds, hasNext \in BOOLEAN :
       LET response == [kind |-> kind,
                        next |-> IF hasNext /\ page[t] < MaxPages THEN page[t] + 1 ELSE 0]
           all == PushResults(acc[t], t, page[t], kind)
           url == NextUrl(response)
       IN /\ lastStatus' = [lastStatus EXCEPT ![t] = 200]
          /\ lastNext' = [lastNext EXCEPT ![t] = response.next]
          /\ served' = [served EXCEPT ![t] = @ \o Payload(t, page[t], kind)]
          /\ acc' = [acc EXCEPT ![t] = all]
          /\ IF url # 0
             THEN /\ pc' = [pc EXCEPT ![t] = "pageDelay"]
                  /\ page' = [page EXCEPT ![t] = url]
                  /\ sleepMs' = [sleepMs EXCEPT ![t] = REQUEST_DELAY]
                  /\ UNCHANGED taskResult
             ELSE /\ Settle(t, AttachTicker(all, t), NoError)
                  /\ UNCHANGED <<page, sleepMs>>
  /\ UNCHANGED <<cfgVars, scanPc, apiVars, attempt, reqs, fails, waits, fetched,
                 batchDelays, servedOk, servedFailed, logVars, rawContracts, result, cacheVars, restVars>>

\* fetch() fails or answers !response.ok: _fetch throws, the catch block of
\* _fetchWithRetry rethrows or sleeps; a rethrown error is caught by the map
\* callback of getOptionsChainForTickers
FetchResponseError(t) ==
  /\ pc[t] = "await"
  /\ \E status \in ErrorStatuses :
       /\ lastStatus' = [lastStatus EXCEPT ![t] = status]
       /\ IF IsAuthError(status) \/ ~IsRetryable(status)
          THEN /\ Settle(t, <<>>, status)
               /\ UNCHANGED <<fails, waits, sleepMs>>
          ELSE /\ pc' = [pc EXCEPT ![t] = "backoff"]
               /\ fails' = [fails EXCEPT ![t] = @ + 1]
               /\ waits' = [waits EXCEPT ![t] = @ + 1]
               /\ sleepMs' = [sleepMs EXCEPT ![t] = BackoffDelay(status, attempt[t])]
               /\ UNCHANGED taskResult
  /\ UNCHANGED <<cfgVars, scanPc, apiVars, attempt, page, acc, reqs, lastNext, served, fetched,
                 batchDelays, servedOk, servedFailed, logVars, rawContracts, result, cacheVars, restVars>>

\* the backoff sleep ends: `continue`, attempt++, then the next _fetch or,
\* the loop being over, throw lastError
RetryWake(t) ==
  /\ pc[t] = "backoff"
  /\ attempt' = [attempt EXCEPT ![t] = @ + 1]
  /\ sleepMs' = [sleepMs EXCEPT ![t] = 0]
  /\ IF RetryLoopCond(attempt[t] + 1)
     THEN /\ pc' = [pc EXCEPT ![t] = "await"]
          /\ reqs' = [reqs EXCEPT ![t] = @ + 1]
          /\ lastStatus' = [lastStatus EXCEPT ![t] = NoError]
          /\ UNCHANGED taskResult
     ELSE /\ Settle(t, <<>>, lastStatus[t])
          /\ UNCHANGED <<reqs, lastStatus>>
  /\ UNCHANGED <<cfgVars, scanPc, apiVars, page, acc, fails, waits, lastNext,
                 served, fetched, batchDelays, servedOk, servedFailed, logVars, rawContracts, result, cacheVars, restVars>>

\* the inter-page sleep ends: the while loop calls _fetchWithRetry(url)
NextPageWake(t) ==
  /\ pc[t] = "pageDelay"
  /\ pc' = [pc EXCEPT ![t] = "await"]
  /\ attempt' = [attempt EXCEPT ![t] = 0]
  /\ fetched' = [fetched EXCEPT ![t] = Append(@, page[t])]
  /\ reqs' = [reqs EXCEPT ![t] = 1]
  /\ fails' = [fails EXCEPT ![t] = 0]
  /\ waits' = [waits EXCEPT ![t] = 0]
  /\ lastStatus' = [lastStatus EXCEPT ![t] = NoError]
  /\ lastNext' = [lastNext EXCEPT ![t] = 0]
  /\ sleepMs' = [sleepMs EXCEPT ![t] = 0]
  /\ UNCHANGED <<cfgVars, scanPc, apiVars, page, acc, taskResult, served,
                 batchDelays, servedOk, servedFailed, logVars, rawContracts, result, cacheVars, restVars>>

\* the promises, results and per-call locals of a finished batch go out of
\* scope; what was observed of its requests is dropped with them
EndOfIteration(B) ==
  /\ pc' = [t \in Tickers |-> IF t \in B THEN "collected" ELSE pc[t]]
  /\ attempt' = [t \in Tickers |-> IF t \in B THEN 0 ELSE attempt[t]]
  /\ page' = [t \in Tickers |-> IF t \in B THEN 0 ELSE page[t]]
  /\ acc' = [t \in Tickers |-> IF t \in B THEN <<>> ELSE acc[t]]
  /\ taskResult' = [t \in Tickers |->
                      IF t \in B THEN [results |-> <<>>, error |-> NoError] ELSE taskResult[t]]
  /\ reqs' = [t \in Tickers |-> IF t \in B THEN 0 ELSE reqs[t]]
  /\ fails' = [t \in Tickers |-> IF t \in B THEN 0 ELSE fails[t]]
  /\ waits' = [t \in Tickers |-> IF t \in B THEN 0 ELSE waits[t]]
  /\ lastStatus' = [t \in Tickers |-> IF t \in B THEN NoError ELSE lastStatus[t]]
  /\ lastNext' = [t \in Tickers |-> IF t \in B THEN 0 ELSE lastNext[t]]
  /\ served' = [t \in Tickers |-> IF t \in B THEN <<>> ELSE served[t]]
  /\ fetched' = [t \in Tickers |-> IF t \in B THEN <<>> ELSE fetched[t]]
  /\ sleepMs' = [t \in Tickers |-> IF t \in B THEN 0 ELSE sleepMs[t]]

\* what the provider sent, in ticker order, to the tickers of the batch whose
\* last response was a 200
ServedToSuccessful(batch) ==
  Flatten([i \in 1..Len(batch) |->
             IF lastStatus[batch[i]] = 200 THEN served[batch[i]] ELSE <<>>])

\* whether the provider had sent contracts to a ticker of the batch whose last
\* response was an error
ServedToFailed(batch) ==
  \E i \in 1..Len(batch) : lastStatus[batch[i]] # 200 /\ served[batch[i]] # <<>>

\* Promise.all(batchPromises) resolves: collect results and errors, report
\* 'complete' per ticker, then sleep before the next batch or return
CollectBatch ==
  /\ apiPc = "awaitBatch"
  /\ \A t \in InBatch(batchIdx) : pc[t] = "settled"
  /\ LET batch == tickerBatches[batchIdx]
         events == CompleteEvents(batch, processedCount)
     IN /\ allResults' = allResults \o CollectResults(batch)
        /\ errors' = errors \o CollectErrors(batch)
        /\ processedCount' = processedCount + Len(batch)
        /\ apiLog' = apiLog \o events
        /\ scanLog' = scanLog \o ScanEvents(events)
        /\ servedOk' = servedOk \o ServedToSuccessful(batch)
        /\ servedFailed' = (servedFailed \/ ServedToFailed(batch))
  /\ EndOfIteration(InBatch(batchIdx))
  /\ IF HasNextBatch(batchIdx)
     THEN /\ apiPc' = "batchDelay"
          /\ batchDelays' = batchDelays + 1
     ELSE /\ apiPc' = "returned"
          /\ UNCHANGED batchDelays
  /\ UNCHANGED <<cfgVars, scanPc, batchIdx, rawContracts, result, cacheVars, restVars>>

\* the inter-batch sleep ends: the for loop starts the next batch
NextBatchWake ==
  /\ apiPc = "batchDelay"
  /\ UNCHANGED <<cfgVars, scanPc, processedCount, allResults, errors, batchDelays,
                 servedOk, servedFailed, rawContracts, result, cacheVars, restVars>>
  /\ StartBatch(tickers, batchIdx + 1, scanLog)

\* as ScanProcess, without awaiting getOptionsChainForTickers
ScanProcess_NoAwait ==
  /\ scanPc = "fetching"
  /\ rawContracts' = allResults
  /\ result' = BuildResult(allResults)
  /\ scanLog' = scanLog \o <<PhaseEvent("processing", 100), PhaseEvent("complete", 100)>>
  /\ scanPc' = "complete"
  /\ UNCHANGED <<cfgVars, apiVars, taskVars, obsVars, batchDelays, servedOk, servedFailed, apiLog,
                 cacheVars, restVars>>

\* getOptionsChainForTickers has returned: report 'processing', normalize,
\* filter, sort, build the result, report 'complete', return
ScanProcess ==
  /\ scanPc = "fetching"
  /\ apiPc = "returned"
  /\ rawContracts' = allResults
  /\ result' = BuildResult(allResults)
  /\ scanLog' = scanLog \o <<PhaseEvent("processing", 100), PhaseEvent("complete", 100)>>
  /\ scanPc' = "complete"
  /\ UNCHANGED <<cfgVars, apiVars, taskVars, obsVars, batchDelays, servedOk, servedFailed, apiLog,
                 cacheVars, restVars>>

\* scan() has returned its result to the awaiting caller: the invocation and
\* what was observed of it are over, the scanner is ready for another scan()
ScanReturn ==
  /\ scanPc = "complete"
  /\ scanPc' = "idle"
  /\ paramTickers' = NullTickers
  /\ tickers' = <<>>
  /\ apiPc' = "idle"
  /\ batchIdx' = 0
  /\ processedCount' = 0
  /\ allResults' = <<>>
  /\ errors' = <<>>
  /\ pc' = [t \in Tickers |-> "idle"]
  /\ batchDelays' = 0
  /\ servedOk' = <<>>
  /\ servedFailed' = FALSE
  /\ apiLog' = <<>>
  /\ scanLog' = <<>>
  /\ rawContracts' = <<>>
  /\ result' = NoResult
  /\ UNCHANGED <<universe, concurrency, maxRetries, attempt, page, acc, taskResult, obsVars,
                 cacheVars, restVars>>

\* setUniverse(newUniverse), between scans
setUniverse ==
  /\ scanPc = "idle"
  /\ \E newUniverse \in Universes : universe' = newUniverse
  /\ UNCHANGED <<paramTickers, tickers, concurrency, maxRetries, scanPc, apiVars, taskVars,
                 obsVars, batchDelays, servedOk, servedFailed, logVars, rawContracts, result, cacheVars, restVars>>

Next ==
  \/ Scan
  \/ ScanReturn
  \/ setUniverse
  \/ \E t \in Tickers : FetchResponseOk(t)
  \/ \E t \in Tickers : FetchResponseError(t)
  \/ \E t \in Tickers : RetryWake(t)
  \/ \E t \in Tickers : NextPageWake(t)
  \/ CollectBatch
  \/ NextBatchWake
  \/ ScanProcess

Spec == Init /\ [][Next]_vars

(***************************************************************************)
(* CacheManager.  Every IndexedDB request is a suspension point: the       *)
(* operation issues it and awaits; the request is carried out, or fails,   *)
(* when the caller is resumed.  Requests complete in the order issued.     *)
(***************************************************************************)
\* the caller awaits the request it has just issued
Suspend(c, q, cl) ==
  /\ call' = [call EXCEPT ![c] = cl]
  /\ queue' = Append(q, c)
  /\ returned' = [returned EXCEPT ![c] = NotReturned]

\* the operation returns ret to its caller, having deleted the snapshots in
\* evicted
FinishWith(c, q, op, ret, unavailable, failed, evicted) ==
  /\ call' = [call EXCEPT ![c] = IdleCall]
  /\ queue' = q
  /\ returned' = [returned EXCEPT ![c] =
                    [op |-> op, key |-> call[c].key, kind |-> ret.kind, value |-> ret.value,
                     unavailable |-> unavailable, failed |-> failed,
                     evicted |-> evicted, began |-> call[c].began]]

\* the operation returns ret to its caller
Finish(c, q, op, ret, unavailable, failed) ==
  FinishWith(c, q, op, ret, unavailable, failed, call[c].evicted)

Resumed(c, request) == queue # <<>> /\ Head(queue) = c /\ call[c].pc = request

\* init(): no window.indexedDB: return false; else await _openDatabase()
init(c) ==
  /\ call[c].pc = "idle"
  /\ db = "null"
  /\ IF ~hasIndexedDB
     THEN Finish(c, queue, "init", Ret("bool", FALSE), TRUE, FALSE)
     ELSE Suspend(c, queue, [IdleCall EXCEPT !.op = "init", !.pc = "open"])
  /\ storeBefore' = [storeBefore EXCEPT ![c] = {}]
  /\ UNCHANGED <<scanVars, restVars, hasIndexedDB, db, isAvailable, store, clock, lastSave, saveHistory>>

\* the call of an operation that starts with a getAll, a get, a delete or a clear
\* request: if (!this.isAvailable) return <default>; else issue the request
Request(c, op, request, phase, key) ==
  /\ call[c].pc = "idle"
  /\ IF ~isAvailable
     THEN Finish(c, queue, op, UnavailableValue(op), TRUE, FALSE)
     ELSE Suspend(c, queue, [IdleCall EXCEPT !.op = op, !.pc = request, !.phase = phase,
                                             !.key = key,
                                             !.began = IF op = "pruneExpired" THEN clock
                                                       ELSE Null])
  /\ storeBefore' = [storeBefore EXCEPT ![c] = {}]
  /\ UNCHANGED <<scanVars, restVars, hasIndexedDB, db, isAvailable, store, clock, lastSave, saveHistory>>

\* saveScan(results, params, universe) up to the getAll of _enforceStorageLimits
saveScan(c, input) ==
  /\ call[c].pc = "idle"
  /\ IF ~isAvailable
     THEN /\ Finish(c, queue, "saveScan", UnavailableValue("saveScan"), TRUE, FALSE)
          /\ storeBefore' = [storeBefore EXCEPT ![c] = {}]
     ELSE /\ Suspend(c, queue, [IdleCall EXCEPT !.op = "saveScan", !.pc = "getAll",
                                                !.phase = "count", !.input = input,
                                                !.rec = BuildScanRecord(clock, input)])
          /\ storeBefore' = [storeBefore EXCEPT ![c] = store]
  /\ UNCHANGED <<scanVars, restVars, hasIndexedDB, db, isAvailable, store, clock, lastSave, saveHistory>>

getLatestScan(c) == Request(c, "getLatestScan", "getAll", "none", Null)
listScans(c) == Request(c, "listScans", "getAll", "none", Null)
getStats(c) == Request(c, "getStats", "getAll", "none", Null)
pruneExpired(c) == Request(c, "pruneExpired", "getAll", "prune", Null)
loadScan(c) == \E id \in StoredIds(store) \cup {Null} : Request(c, "loadScan", "get", "none", id)
\* deleteScan(id): of a stored id, of an id never stored, or of the id of the
\* caller's previous call again
deleteScan(c) ==
  \E id \in StoredIds(store) \cup {Null, returned[c].key} :
    Request(c, "deleteScan", "delete", "none", id)
clearAll(c) == Request(c, "clearAll", "clear", "none", Null)

\* while (scans.length >= CACHE_CONFIG.maxScans)
CountLoopCond(scans) == Len(scans) >= maxScans

\* as SizeLoopCond, leaving the new entry's size out
SizeLoopCond_StoredOnly(totalSize, newSize, scans) ==
  totalSize > maxSizeBytes /\ Len(scans) > 0

\* while (totalSize + newSize > CACHE_CONFIG.maxSizeBytes && scans.length > 0)
SizeLoopCond(totalSize, newSize, scans) ==
  totalSize + newSize > maxSizeBytes /\ Len(scans) > 0

\* _enforceStorageLimits from the head of its first loop, or of its second,
\* to the next request: a delete of the oldest snapshot left, or the put
EnforceStorageLimits(c, q, cl) ==
  IF cl.phase = "count" /\ CountLoopCond(cl.scans)
  THEN Suspend(c, q, [cl EXCEPT !.pc = "delete", !.key = Head(cl.scans).id,
                                !.oldest = Head(cl.scans), !.scans = Tail(cl.scans)])
  ELSE LET totalSize == IF cl.phase = "count" THEN SumSizes(cl.scans) ELSE cl.totalSize
       IN IF SizeLoopCond(totalSize, cl.rec.size, cl.scans)
          THEN Suspend(c, q, [cl EXCEPT !.pc = "delete", !.phase = "size",
                                        !.key = Head(cl.scans).id, !.oldest = Head(cl.scans),
                                        !.scans = Tail(cl.scans), !.totalSize = totalSize])
          ELSE Suspend(c, q, [cl EXCEPT !.pc = "put", !.phase = "size", !.totalSize = totalSize])

\* what pruneExpired returns, and what init returns after its pruneExpired
PruneResult(op, removed) == IF op = "init" THEN Ret("bool", TRUE) ELSE Ret("count", removed)

\* pruneExpired's loop from its head to the delete of the next expired
\* snapshot, or to the return
PruneLoop(c, q, cl) ==
  LET expired == {i \in 1..Len(cl.scans) : IsExpired(cl.scans[i].timestamp, clock)}
  IN IF expired = {}
     THEN FinishWith(c, q, cl.op, PruneResult(cl.op, cl.removed), FALSE, FALSE, cl.evicted)
     ELSE LET i == CHOOSE j \in expired : \A k \in expired : j <= k
          IN Suspend(c, q, [cl EXCEPT !.pc = "delete", !.key = cl.scans[i].id,
                                      !.scans = SubSeq(cl.scans, i + 1, Len(cl.scans))])

\* a request failed (request.onerror): the catch block of the operation; init
\* has pruneExpired's catch return 0 and goes on to return true
Failed(c, q, cl) ==
  IF cl.op = "init" /\ cl.pc # "open"
  THEN Finish(c, q, "init", Ret("bool", TRUE), FALSE, TRUE)
  ELSE Finish(c, q, cl.op, CatchValue(cl.op), FALSE, TRUE)

\* indexedDB.open answers
OpenDone(c, ok) ==
  /\ Resumed(c, "open")
  /\ IF ok
     THEN /\ db' = "open"
          /\ isAvailable' = TRUE
          /\ Suspend(c, Tail(queue), [call[c] EXCEPT !.pc = "getAll", !.phase = "prune",
                                                       !.began = clock])
     ELSE /\ isAvailable' = FALSE
          /\ Failed(c, Tail(queue), call[c])
          /\ UNCHANGED db
  /\ UNCHANGED <<scanVars, restVars, hasIndexedDB, store, clock, storeBefore, lastSave, saveHistory>>

\* store.getAll() answers
GetAllDone(c, ok) ==
  /\ Resumed(c, "getAll")
  /\ LET cl == call[c]
         q == Tail(queue)
         scans == GetAllRecords(store)
         newest == SortNewestFirst(scans)
     IN IF ~ok THEN Failed(c, q, cl)
        ELSE IF cl.op = "saveScan"
          THEN EnforceStorageLimits(c, q, [cl EXCEPT !.scans = SortOldestFirst(scans)])
        ELSE IF cl.op = "getLatestScan"
          THEN Finish(c, q, cl.op,
                      IF scans = <<>> THEN Ret("null", Null) ELSE Ret("record", newest[1]),
                      FALSE, FALSE)
        ELSE IF cl.op = "listScans"
          THEN Finish(c, q, cl.op,
                      Ret("list", [i \in 1..Len(newest) |-> ScanMetadata(newest[i], clock)]),
                      FALSE, FALSE)
        ELSE IF cl.op = "getStats"
          THEN Finish(c, q, cl.op,
                      Ret("stats", [available |-> TRUE, scanCount |-> Len(scans),
                                    totalSize |-> SumSizes(scans)]),
                      FALSE, FALSE)
        ELSE PruneLoop(c, q, [cl EXCEPT !.scans = scans])
  /\ saveHistory' = IF ~ok /\ call[c].op = "saveScan"
                    THEN OtherWrites ELSE saveHistory
  /\ UNCHANGED <<scanVars, restVars, hasIndexedDB, db, isAvailable, store, clock, storeBefore, lastSave>>

\* store.get(key) answers
GetDone(c, ok) ==
  /\ Resumed(c, "get")
  /\ IF ok THEN Finish(c, Tail(queue), call[c].op, GetRecord(store, call[c].key), FALSE, FALSE)
     ELSE Failed(c, Tail(queue), call[c])
  /\ UNCHANGED <<scanVars, restVars, hasIndexedDB, db, isAvailable, store, clock, storeBefore, lastSave,
                 saveHistory>>

\* store.delete(key) answers
DeleteDone(c, ok) ==
  /\ Resumed(c, "delete")
  /\ LET gone == {r \in store : r.id = call[c].key}
         cl == [call[c] EXCEPT !.evicted = @ \cup gone]
         q == Tail(queue)
     IN IF ~ok
        THEN /\ Failed(c, q, call[c])
             /\ UNCHANGED <<store, lastSave>>
        ELSE /\ store' = DeleteKey(store, cl.key)
             /\ lastSave' = NoSave
             /\ IF cl.op = "saveScan" /\ cl.phase = "count"
                  THEN EnforceStorageLimits(c, q, cl)
                ELSE IF cl.op = "saveScan"
                  THEN EnforceStorageLimits(c, q, [cl EXCEPT !.totalSize = @ - cl.oldest.size])
                ELSE IF cl.op = "deleteScan"
                  THEN FinishWith(c, q, cl.op, Ret("bool", TRUE), FALSE, FALSE, cl.evicted)
                ELSE PruneLoop(c, q, [cl EXCEPT !.removed = @ + 1])
  /\ saveHistory' = IF ok /\ call[c].op = "saveScan" /\ call[c].phase = "count"
                    THEN saveHistory ELSE OtherWrites
  /\ UNCHANGED <<scanVars, restVars, hasIndexedDB, db, isAvailable, clock, storeBefore>>

\* store.put(scanRecord) answers
PutDone(c, ok) ==
  /\ Resumed(c, "put")
  /\ LET cl == call[c]
     IN IF ok
        THEN /\ store' = PutRecord(store, cl.rec)
             /\ Finish(c, Tail(queue), cl.op, Ret("id", cl.rec.id), FALSE, FALSE)
             /\ lastSave' = [id |-> cl.rec.id, input |-> cl.input]
             /\ saveHistory' = IF saveHistory.plain
                                THEN [saveHistory EXCEPT !.n = Min(@ + 1, maxScans + 1)]
                                ELSE saveHistory
        ELSE /\ Failed(c, Tail(queue), cl)
             /\ saveHistory' = OtherWrites
             /\ UNCHANGED <<store, lastSave>>
  /\ UNCHANGED <<scanVars, restVars, hasIndexedDB, db, isAvailable, clock, storeBefore>>

\* store.clear() answers
ClearDone(c, ok) ==
  /\ Resumed(c, "clear")
  /\ IF ok
     THEN /\ store' = {}
          /\ lastSave' = NoSave
          /\ Finish(c, Tail(queue), call[c].op, Ret("bool", TRUE), FALSE, FALSE)
     ELSE /\ Failed(c, Tail(queue), call[c])
          /\ UNCHANGED <<store, lastSave>>
  /\ saveHistory' = OtherWrites
  /\ UNCHANGED <<scanVars, restVars, hasIndexedDB, db, isAvailable, clock, storeBefore>>

\* time passes: d ms
Tick(d) ==
  /\ (clock + d) % HardExpiryMs <= MaxClockMs
  /\ (clock + d) \div HardExpiryMs <= MaxWeeks
  /\ clock' = clock + d
  /\ UNCHANGED <<scanVars, restVars, hasIndexedDB, db, isAvailable, store, call, queue, returned,
                 storeBefore, lastSave, saveHistory>>

\* the page is loaded again: a new CacheManager over the same database
Reload ==
  /\ queue = <<>>
  /\ db = "open"
  /\ db' = "null"
  /\ isAvailable' = FALSE
  /\ returned' = [c \in Callers |-> NotReturned]
  /\ storeBefore' = [c \in Callers |-> {}]
  /\ UNCHANGED <<scanVars, restVars, hasIndexedDB, store, clock, call, queue, lastSave, saveHistory>>

CacheInit ==
  /\ ScannerInit
  /\ universe = <<>>
  /\ concurrency = CONCURRENCY
  /\ maxRetries = MAX_RETRIES
  /\ CacheManagerInit
  /\ ProcessingIdle
  /\ UniverseUntouched
  /\ PageIdle

\* One caller: each cache operation is awaited before the next is called.
\* A request may fail; the clock moves by a ms or by a week.
CacheNext ==
  \/ init(1)
  \/ \E input \in SaveInputs : saveScan(1, input)
  \/ getLatestScan(1)
  \/ listScans(1)
  \/ loadScan(1)
  \/ deleteScan(1)
  \/ clearAll(1)
  \/ getStats(1)
  \/ pruneExpired(1)
  \/ \E ok \in BOOLEAN : OpenDone(1, ok)
  \/ \E ok \in BOOLEAN : GetAllDone(1, ok)
  \/ \E ok \in BOOLEAN : GetDone(1, ok)
  \/ \E ok \in BOOLEAN : DeleteDone(1, ok)
  \/ \E ok \in BOOLEAN : PutDone(1, ok)
  \/ \E ok \in BOOLEAN : ClearDone(1, ok)
  \/ \E d \in {1, HardExpiryMs} : Tick(d)
  \/ Reload

CacheSpec == CacheInit /\ [][CacheNext]_vars

\* Two callers whose writes may overlap, on a platform with IndexedDB where no
\* request fails; every save is of the smallest snapshot.
SmallInput == CHOOSE input \in SaveInputs : \A o \in SaveInputs : input.results.jsonBytes <= o.results.jsonBytes

CacheInitOverlap == CacheInit /\ hasIndexedDB

CacheNextOverlap ==
  \/ \E c \in Callers : init(c)
  \/ \E c \in Callers : saveScan(c, SmallInput)
  \/ \E c \in Callers : deleteScan(c)
  \/ \E c \in Callers : clearAll(c)
  \/ \E c \in Callers : OpenDone(c, TRUE)
  \/ \E c \in Callers : GetAllDone(c, TRUE)
  \/ \E c \in Callers : DeleteDone(c, TRUE)
  \/ \E c \in Callers : PutDone(c, TRUE)
  \/ \E c \in Callers : ClearDone(c, TRUE)
  \/ \E d \in {1, HardExpiryMs} : Tick(d)

CacheSpecOverlap == CacheInitOverlap /\ [][CacheNextOverlap]_vars

(***************************************************************************)
(* Properties                                                              *)
(***************************************************************************)
Scanned == {tickers[i] : i \in 1..Len(tickers)}
\* the place of a scanned ticker in the list handed to the client
PositionOf(t) == CHOOSE i \in 1..Len(tickers) : tickers[i] = t
Ids(contracts) == [i \in 1..Len(contracts) |-> contracts[i].id]
CredentialStatus(s) == s \in {401, 403}
RetryableStatus(s) == s = 429 \/ s >= 500
InFlight(t) == pc[t] \in {"await", "backoff", "pageDelay"}
\* the batch a ticker belongs to: positions 1..c, c+1..2c, ...
BatchOf(t) == ((PositionOf(t) - 1) \div concurrency) + 1
NumBatches == (Len(tickers) + concurrency - 1) \div concurrency
Positions(log, P(_)) == {i \in 1..Len(log) : P(log[i])}

\* C1: if any ticker's fetch during scan() receives 401 or 403, scan() fails
\* with that error and returns no ScanResult; the credential error is not
\* recorded as an isolated per-ticker failure.
CredentialErrorSeen ==
  \/ \E t \in Tickers : CredentialStatus(lastStatus[t])
  \/ \E i \in 1..Len(errors) : CredentialStatus(errors[i].error)

C1_CredentialErrorAbortsScan ==
  CredentialErrorSeen =>
    /\ scanPc # "complete"
    /\ result = NoResult
    /\ \A i \in 1..Len(errors) : ~CredentialStatus(errors[i].error)

\* C2: a ticker whose fetch fails with a non-credential error contributes no
\* contract, not even those of pages it had received; the contracts of the
\* successful tickers are returned complete and in ticker order; the call
\* returns and scan() completes with totalFetched counting the successful
\* tickers' contracts only.
C2_FailedTickerIsolated ==
  /\ Ids(allResults) = Ids(servedOk)
  /\ \A i \in 1..Len(allResults) : allResults[i]._ticker = allResults[i].id[1]
  /\ \A i, j \in 1..Len(allResults) :
       i < j => PositionOf(allResults[i].id[1]) <= PositionOf(allResults[j].id[1])
  /\ \A i \in 1..Len(errors), j \in 1..Len(allResults) :
       allResults[j].id[1] # errors[i].ticker
  /\ \A t \in Tickers :
       (pc[t] = "settled" /\ lastStatus[t] # 200) =>
         (taskResult[t].error # NoError /\ taskResult[t].results = <<>>)
  /\ (scanPc # "idle" /\ \A t \in Scanned : pc[t] = "collected") => apiPc = "returned"
  /\ scanPc = "complete" =>
       /\ Ids(rawContracts) = Ids(servedOk)
       /\ result # NoResult
       /\ result.stats.totalFetched = Len(servedOk)

C2_Witness ==
  /\ scanPc = "complete"
  /\ \E i \in 1..Len(errors) : ~CredentialStatus(errors[i].error)
  /\ \A i \in 1..Len(errors) : ~CredentialStatus(errors[i].error)
  /\ servedFailed
  /\ result.stats.totalFetched = MaxPerPage
  /\ result.stats.tickersScanned = 2

\* C3: in _fetchWithRetry a 401, a 403 or any other error that is neither 429
\* nor >= 500 fails the call at once with that error, on whichever attempt:
\* no further request for the URL and no backoff wait.
C3_NonRetryableFailsAtOnce ==
  \A t \in Tickers :
    (lastStatus[t] \in ErrorStatuses /\ ~RetryableStatus(lastStatus[t])) =>
      /\ pc[t] = "settled"
      /\ taskResult[t].error = lastStatus[t]
      /\ taskResult[t].results = <<>>
      /\ reqs[t] = fails[t] + 1
      /\ waits[t] = fails[t]
      /\ sleepMs[t] = 0

C3_Witness ==
  \E t \in Tickers :
    /\ lastStatus[t] = 404
    /\ fails[t] = 1
    /\ reqs[t] = 2
    /\ pc[t] = "settled"

\* C4: when every attempt fails with 429 or >= 500, the call issues exactly
\* maxRetries requests for the URL, never more, and fails with the error of
\* the last request.
C4_ExhaustedRetries ==
  \A t \in Tickers :
    /\ reqs[t] <= maxRetries
    /\ (pc[t] = "settled" /\ RetryableStatus(taskResult[t].error)) =>
         /\ reqs[t] = maxRetries
         /\ fails[t] = maxRetries
         /\ taskResult[t].error = lastStatus[t]

C4_Witness ==
  \E t \in Tickers :
    /\ pc[t] = "settled"
    /\ taskResult[t].error = 429
    /\ maxRetries = MAX_RETRIES
    /\ reqs[t] = MAX_RETRIES

\* C5: for k < maxRetries, k retryable failures followed by a success make
\* _fetchWithRetry return the successful payload after exactly k+1 requests;
\* the call does not give up while fewer than maxRetries attempts have failed.
C5_RetryThenSuccess ==
  \A t \in Tickers :
    /\ lastStatus[t] = 200 =>
         /\ pc[t] \in {"pageDelay", "settled"}
         /\ pc[t] = "settled" => taskResult[t].error = NoError
         /\ fails[t] < maxRetries
         /\ reqs[t] = fails[t] + 1
         /\ Ids(acc[t]) = Ids(served[t])
    /\ (pc[t] = "settled" /\ RetryableStatus(taskResult[t].error)) =>
         fails[t] >= maxRetries

C5_Witness ==
  \E t \in Tickers :
    /\ maxRetries = 3
    /\ lastStatus[t] = 200
    /\ fails[t] = 2
    /\ reqs[t] = 3
    /\ pc[t] = "settled"
    /\ taskResult[t].results # <<>>

\* C6: _fetchAllPages follows next_url from the initial URL until a page has
\* none, requests each page once in chain order and returns the pages'
\* results concatenated in order of receipt; a page without a results array
\* adds nothing and does not stop the pagination.
C6_Pagination ==
  \A t \in Tickers :
    /\ fetched[t] = [i \in 1..Len(fetched[t]) |-> i]
    /\ pc[t] = "pageDelay" => lastNext[t] = Len(fetched[t]) + 1
    /\ (pc[t] = "settled" /\ taskResult[t].error = NoError) =>
         /\ lastStatus[t] = 200
         /\ lastNext[t] = 0
         /\ Ids(taskResult[t].results) = Ids(served[t])
    /\ InFlight(t) => Ids(acc[t]) = Ids(served[t])

C6_Witness ==
  \E t \in Tickers :
    /\ pc[t] = "settled"
    /\ taskResult[t].error = NoError
    /\ fetched[t] = <<1, 2>>
    /\ Len(taskResult[t].results) = MaxPerPage
    /\ taskResult[t].results[1].id = <<t, 2, 1>>

\* C7: tickers are processed in consecutive batches of at most `concurrency`;
\* no ticker of a later batch is started before every ticker of the earlier
\* batches has settled, at most `concurrency` fetches are in flight, one
\* inter-batch delay separates consecutive batches and none follows the last.
C7_Batches ==
  /\ \A k \in 1..Len(tickerBatches) :
       Len(tickerBatches[k]) >= 1 /\ Len(tickerBatches[k]) <= concurrency
  /\ Flatten(tickerBatches) = tickers
  /\ \A t, u \in Scanned :
       (BatchOf(t) < BatchOf(u) /\ pc[u] # "idle") => pc[t] = "collected"
  /\ Cardinality({t \in Tickers : InFlight(t)}) <= concurrency
  /\ apiPc = "awaitBatch" => batchDelays = batchIdx - 1
  /\ apiPc = "batchDelay" => batchDelays = batchIdx /\ batchIdx < NumBatches
  /\ apiPc = "returned" =>
       batchDelays = (IF NumBatches = 0 THEN 0 ELSE NumBatches - 1)

C7_Witness ==
  /\ apiPc = "awaitBatch"
  /\ batchIdx = 2
  /\ batchDelays = 1
  /\ pc[1] = "collected"
  /\ pc[2] = "backoff"

\* C8: every ticker gets exactly one 'fetching' call when its fetch starts
\* and exactly one 'complete' call once its fetch has finished, in that
\* order; the counts of the 'complete' calls are 1, 2, ..., total.
IsFetching(e) == e.status = "fetching"
IsComplete(e) == e.status = "complete"
C9_ProgressMonotone ==
  /\ \A i \in 1..Len(scanLog) : scanLog[i].progress >= 0 /\ scanLog[i].progress <= 100
  /\ \A i, j \in 1..Len(scanLog) : i < j => scanLog[i].progress <= scanLog[j].progress

C9_Witness ==
  /\ scanPc = "complete"
  /\ concurrency = 2
  /\ Len(tickers) = 2
  /\ Len(errors) = 1
  /\ \E i \in 1..Len(scanLog) : scanLog[i].progress = 50

\* C10: a successful scan() reports 'fetching' first, 'processing' exactly
\* once and only after every ticker fetch has settled, 'complete' exactly
\* once as the last event, after filtering and sorting, and no 'fetching'
\* after 'processing'.
C10_PhaseOrder ==
  LET fetching == {i \in 1..Len(scanLog) : scanLog[i].phase = "fetching"}
      processing == {i \in 1..Len(scanLog) : scanLog[i].phase = "processing"}
      complete == {i \in 1..Len(scanLog) : scanLog[i].phase = "complete"}
  IN /\ scanPc # "idle" => (Len(scanLog) > 0 /\ scanLog[1].phase = "fetching")
     /\ \A i \in 1..Len(scanLog) : scanLog[i].phase \in {"fetching", "processing", "complete"}
     /\ Cardinality(processing) <= 1
     /\ Cardinality(complete) <= 1
     /\ processing # {} => \A t \in Scanned : pc[t] = "collected"
     /\ \A i \in fetching, j \in processing : i < j
     /\ \A i \in processing, j \in complete : i < j
     /\ complete # {} => result # NoResult
     /\ scanPc = "complete" =>
          /\ Cardinality(processing) = 1
          /\ complete = {Len(scanLog)}
          /\ result.contracts =
               SortContracts(ApplyFilters([i \in 1..Len(rawContracts) |->
                                             NormalizeContract(rawContracts[i])]))

C10_Witness ==
  /\ scanPc = "complete"
  /\ Len(tickers) = 2
  /\ Len(scanLog) = 7
  /\ Len(result.contracts) = 3
  /\ result.contracts[1].contractTicker[2] = 2
  /\ result.stats.totalFetched = 3 * MaxPerPage

\* C11: when a scan() invocation hits an unrecoverable fetch error (a
\* credential failure), an 'error' phase is reported and neither 'processing'
\* nor 'complete' is reported for that invocation.
CredentialFailure == \E i \in 1..Len(errors) : CredentialStatus(errors[i].error)

C11_ErrorPhaseTerminal ==
  CredentialFailure =>
    /\ \A i \in 1..Len(scanLog) : scanLog[i].phase \notin {"processing", "complete"}
    /\ scanPc = "complete" => \E i \in 1..Len(scanLog) : scanLog[i].phase = "error"

\* the calls of getOptionsChain for ticker t (each is announced by one
\* 'fetching' call of the client's onProgress)
ChainRequests(t) == Cardinality({i \in Positions(apiLog, IsFetching) : apiLog[i].ticker = t})
UniverseSet == {universe[i].ticker : i \in 1..Len(universe)}
OverrideSet == {paramTickers.items[i] : i \in 1..Len(paramTickers.items)}
NoOverride == paramTickers.kind = "null" \/ paramTickers.items = <<>>

OverrideFetched ==
  (scanPc # "idle" /\ ~NoOverride) =>
    /\ tickers = paramTickers.items
    /\ \A t \in Tickers :
         /\ ChainRequests(t) <= 1
         /\ t \notin OverrideSet => (ChainRequests(t) = 0 /\ pc[t] = "idle")
         /\ pc[t] # "idle" => ChainRequests(t) = 1
    /\ apiPc = "returned" =>
         \A t \in OverrideSet : ChainRequests(t) = 1 /\ pc[t] = "collected"
    /\ scanPc = "complete" => result.stats.tickersScanned = Len(paramTickers.items)

UniverseKept == (scanPc # "idle" \/ scanPc' # "idle") => universe' = universe

C13_OverrideForOneScan == []OverrideFetched /\ [][UniverseKept]_vars

C13_Witness ==
  /\ scanPc = "complete"
  /\ paramTickers = ArrayOf(<<2>>)
  /\ Len(universe) = 2
  /\ pc[1] = "idle"
  /\ pc[2] = "collected"
  /\ ChainRequests(1) = 0
  /\ ChainRequests(2) = 1


(* ---------------- the cache, one caller ---------------- *)
SaveReturned == returned[1].op = "saveScan" /\ returned[1].kind = "id"
Before == storeBefore[1]
NewRecord == CHOOSE r \in store : r.id = returned[1].value
TotalSize(S) == SumSizes(GetAllRecords(S))
OldestOf(S) == CHOOSE r \in S : \A o \in S : r.timestamp <= o.timestamp
\* the snapshots a save removed, and those it left, among those stored before
Evicted == returned[1].evicted
Retained == Before \ Evicted

\* C14: when the cache holds exactly maxScans snapshots and the size limit
\* is not reached, a successful saveScan deletes exactly one snapshot, the
\* oldest, and the count is maxScans again afterwards.
C14_EvictsOneAtCapacity ==
  (/\ SaveReturned
   /\ Cardinality(Before) = maxScans
   /\ TotalSize(Before) + NewRecord.size <= maxSizeBytes) =>
    /\ Cardinality(store) = maxScans
    /\ Evicted = {OldestOf(Before)}

\* C15: with sequential calls the number of stored snapshots never exceeds
\* maxScans, and after n successful saves and no other write (the size limit
\* never reached) listScans returns min(n, maxScans) entries.
C15_KeepsMostRecent ==
  /\ Cardinality(store) <= maxScans
  /\ (/\ returned[1].op = "listScans"
      /\ ~returned[1].unavailable
      /\ ~returned[1].failed
      /\ saveHistory.plain) =>
       Len(returned[1].value) = Min(saveHistory.n, maxScans)

\* C16: a successful saveScan evicts oldest-first: no snapshot it leaves is
\* older than one it evicts; beyond the evictions for the count it evicts
\* only while what is left plus the new entry exceeds maxSizeBytes; it then
\* writes the new snapshot and changes nothing else; afterwards the stored
\* total is at most maxSizeBytes unless the new snapshot is the only one.
EvictedForCount ==
  IF Cardinality(Before) >= maxScans THEN Cardinality(Before) - maxScans + 1 ELSE 0

C16_SizeEviction ==
  SaveReturned =>
    /\ \A e \in Evicted, k \in Retained : e.id < k.id /\ e.timestamp <= k.timestamp
    /\ Evicted \subseteq Before
    /\ Cardinality(Evicted) >= EvictedForCount
    /\ Cardinality(Evicted) > EvictedForCount =>
         \E e \in Evicted :
           /\ \A o \in Evicted : o.timestamp <= e.timestamp
           /\ TotalSize(Retained) + e.size + NewRecord.size > maxSizeBytes
    /\ TotalSize(Retained) + NewRecord.size <= maxSizeBytes \/ Retained = {}
    /\ store = {r \in Retained : r.id # NewRecord.id} \cup {NewRecord}
    /\ TotalSize(store) <= maxSizeBytes \/ store = {NewRecord}

C16_Witness ==
  /\ SaveReturned
  /\ Cardinality(Before) = 2
  /\ Cardinality(Evicted) = 1
  /\ Cardinality(Retained) = 1
  /\ Cardinality(store) = 2
  /\ TotalSize(Before) + NewRecord.size > maxSizeBytes

\* C18: each successful saveScan returns an id strictly greater than the id
\* of every snapshot saved before it and overwrites no stored snapshot, also
\* when two saves fall in the same clock ms.
C18_IdsUniqueIncreasing ==
  SaveReturned => \A r \in Before : r.id < returned[1].value

\* C19: loadScan of the id a successful saveScan returned, with no write to
\* the store in between, returns a snapshot whose contracts, params and
\* universe tickers equal the arguments of the save, null fields still null.
C19_SaveLoadRoundTrip ==
  (/\ returned[1].op = "loadScan"
   /\ ~returned[1].unavailable
   /\ ~returned[1].failed
   /\ lastSave.id # Null
   /\ returned[1].key = lastSave.id) =>
    /\ returned[1].kind = "record"
    /\ returned[1].value.id = lastSave.id
    /\ returned[1].value.results.contracts = lastSave.input.results.contracts
    /\ returned[1].value.params = lastSave.input.params
    /\ returned[1].value.universe =
         (IF lastSave.input.universe.kind = "null" THEN <<>>
          ELSE lastSave.input.universe.items)

C19_Witness ==
  /\ returned[1].op = "loadScan"
  /\ returned[1].kind = "record"
  /\ returned[1].key = lastSave.id
  /\ Cardinality(store) = 2
  /\ Len(returned[1].value.results.contracts) = 2
  /\ returned[1].value.results.contracts[1].ask = Null
  /\ returned[1].value.params.priceMin = Null
  /\ returned[1].value.universe = <<1, 2>>

\* C20: when storage is unavailable (before init, or init returned false) or
\* a storage request fails, no cache operation throws: saveScan, loadScan and
\* getLatestScan return null, listScans an empty list, deleteScan and
\* clearAll false, pruneExpired 0, and getStats reports available = false.
C20_DegradesGracefully ==
  \A c \in Callers :
    LET r == returned[c]
    IN /\ r.kind # "throw"
       /\ (r.unavailable \/ r.failed) =>
            /\ r.op \in {"saveScan", "loadScan", "getLatestScan"} => r.kind = "null"
            /\ r.op = "listScans" => (r.kind = "list" /\ r.value = <<>>)
            /\ r.op \in {"deleteScan", "clearAll"} => (r.kind = "bool" /\ r.value = FALSE)
            /\ r.op = "pruneExpired" => (r.kind = "count" /\ r.value = 0)
            /\ r.op = "getStats" => (r.kind = "stats" /\ r.value.available = FALSE)

C20_Witness ==
  /\ returned[1].op = "clearAll"
  /\ returned[1].failed
  /\ returned[1].kind = "bool"
  /\ Cardinality(store) = 2

\* C17: cache writes are serialized: when saveScan calls (or a saveScan and
\* a deleteScan or clearAll) overlap, the outcome is that of some sequential
\* order of the calls; in particular the number of stored snapshots never
\* exceeds maxScans.
C17_WritesSerialized == Cardinality(store) <= maxScans

(* ---------------- expiry ---------------- *)
\* the age of snapshot r at time now exceeds the hard-expiry threshold (7 days)
PastHardExpiry(r, now) == now - r.timestamp > hardExpiryDays * 24 * 60 * 60 * 1000

\* the age of snapshot r at time now exceeds the soft-expiry threshold (4 hours)
PastSoftExpiry(r, now) == now - r.timestamp > softExpiryHours * 60 * 60 * 1000

\* caller 1's last call was a pruning (pruneExpired, or the one of init) and
\* all its storage requests succeeded
PruneReturned ==
  /\ returned[1].op \in {"pruneExpired", "init"}
  /\ ~returned[1].unavailable
  /\ ~returned[1].failed

ListReturns ==
  /\ call[1].op = "listScans"
  /\ returned'[1].op = "listScans"
  /\ ~returned'[1].failed

\* entry e of a listing is the metadata of snapshot r at time now
MetadataOf(e, r, now) ==
  /\ e.id = r.id
  /\ e.timestamp = r.timestamp
  /\ e.contractCount = Len(r.results.contracts)
  /\ e.size = r.size
  /\ e.params = r.params
  /\ e.isStale = PastSoftExpiry(r, now)
  /\ e.isExpired = PastHardExpiry(r, now)

\* C22: listScans returns one metadata entry for every stored snapshot,
\* expired ones included, newest first, and deletes nothing; isStale is true
\* exactly when the age exceeds the soft-expiry threshold and isExpired
\* exactly when it exceeds the hard-expiry threshold.
C22_ListScans ==
  [][ListReturns =>
       /\ returned'[1].kind = "list"
       /\ Len(returned'[1].value) = Cardinality(store)
       /\ \A r \in store :
            \E i \in 1..Len(returned'[1].value) : MetadataOf(returned'[1].value[i], r, clock)
       /\ \A i, j \in 1..Len(returned'[1].value) :
            i < j => returned'[1].value[i].timestamp >= returned'[1].value[j].timestamp
       /\ store' = store]_vars

C22_Witness ==
  /\ returned[1].op = "listScans"
  /\ returned[1].kind = "list"
  /\ Len(returned[1].value) = 3
  /\ ~returned[1].value[1].isStale
  /\ returned[1].value[2].isStale /\ ~returned[1].value[2].isExpired
  /\ returned[1].value[3].isExpired
  /\ Cardinality(store) = 3

(* ---------------- deleteScan and clearAll ---------------- *)
\* caller 1's deleteScan (clearAll) returns in this step, its request answered
\* without an error
DeleteReturns ==
  /\ call[1].op = "deleteScan"
  /\ returned'[1].op = "deleteScan"
  /\ ~returned'[1].failed

ClearReturns ==
  /\ call[1].op = "clearAll"
  /\ returned'[1].op = "clearAll"
  /\ ~returned'[1].failed

\* C23: deleteScan(id) returns true and removes the snapshot with that id
\* and no other; when no snapshot has that id (never stored, or deleted by
\* the call before) the store is left unchanged.  clearAll returns true and
\* leaves the store empty, also when it was empty already.
C23_DeleteClearIdempotent ==
  [][/\ DeleteReturns =>
          /\ returned'[1].kind = "bool" /\ returned'[1].value = TRUE
          /\ store' = {r \in store : r.id # call[1].key}
          /\ call[1].key \notin {r.id : r \in store} => store' = store
     /\ ClearReturns =>
          /\ returned'[1].kind = "bool" /\ returned'[1].value = TRUE
          /\ store' = {}]_vars

\* a second deleteScan of the same id has returned true with nothing deleted
\* and the other snapshots still stored
C23_Witness ==
  /\ returned[1].op = "deleteScan"
  /\ returned[1].kind = "bool" /\ returned[1].value = TRUE
  /\ returned[1].key # Null
  /\ returned[1].evicted = {}
  /\ Cardinality(store) = 2

(* ---------------- backoff ---------------- *)
\* retryDelay * 2^n
RetryDelayTimes2To(n) == RETRY_DELAY * (2 ^ n)

\* C29: with zero-based attempt number a, a 429 is followed by a wait of
\* retryDelay * 2^(a+1) and a response with status >= 500 by a wait of
\* retryDelay * 2^a, and each such wait is followed by a retry, that is by
\* another request for the same page.
C29_BackoffThenRetry ==
  [][\A t \in Tickers :
       /\ (pc[t] = "await" /\ pc'[t] = "backoff") =>
            /\ lastStatus'[t] = 429 => sleepMs'[t] = RetryDelayTimes2To(attempt[t] + 1)
            /\ lastStatus'[t] >= 500 => sleepMs'[t] = RetryDelayTimes2To(attempt[t])
            /\ lastStatus'[t] = 429 \/ lastStatus'[t] >= 500
       /\ (pc[t] = "backoff" /\ pc'[t] # "backoff") =>
            /\ pc'[t] = "await"
            /\ reqs'[t] = reqs[t] + 1
            /\ page'[t] = page[t]]_vars


(***************************************************************************)
(* Contract processing: _normalizeContract and the filter predicates.      *)
(* A raw contract is the provider's nested object, written flat: absent    *)
(* members are Null, an absent or empty string is "" (tickers: NoTicker),  *)
(* both being falsy where the code tests them.  Prices are in cents and    *)
(* even, so that (bid + ask) / 2 is a whole number; iv is in percent and   *)
(* delta in hundredths; a date is the number of its day, 0 for an absent   *)
(* or empty one.  gamma, theta, vega and breakEven are copied or derived   *)
(* independently of the fields below and are left out.                     *)
(***************************************************************************)
MaxContracts == 2
MaxFilters == 2

Abs(x) == IF x < 0 THEN -x ELSE x

\* !x for a number or absent member: null, undefined and 0 are falsy
Falsy(x) == x = Null \/ x = 0

\* this.universe of the scanner whose payloads are processed: one complete
\* entry, one entry without an industry; ticker 3 has no entry
ProcessingUniverse ==
  << [ticker |-> 1, company |-> "Exxon Mobil Corp", industry |-> "Oil & Gas Integrated",
      country |-> "USA"],
     [ticker |-> 2, company |-> "Cenovus Energy Inc", industry |-> "", country |-> "Canada"] >>

\* _buildUniverseMap: map.set(item.ticker, item) in order, a later entry
\* replacing an earlier one of the same ticker
BuildUniverseMap(u) ==
  [t \in {u[i].ticker : i \in 1..Len(u)} |->
     u[CHOOSE i \in 1..Len(u) : u[i].ticker = t /\ \A j \in (i + 1)..Len(u) : u[j].ticker # t]]

\* universeMap.get(underlyingTicker) || {}, then meta.company || '' etc.
MetaOf(universeMap, underlyingTicker) ==
  IF underlyingTicker \in DOMAIN universeMap
  THEN [company |-> universeMap[underlyingTicker].company,
        industry |-> universeMap[underlyingTicker].industry,
        country |-> universeMap[underlyingTicker].country]
  ELSE [company |-> "", industry |-> "", country |-> ""]

\* getMoneyness: pctDiff = (strike - underlyingPrice) / underlyingPrice;
\* |pctDiff| <= 0.02 is 50 * |strike - underlyingPrice| <= |underlyingPrice|
getMoneyness(strike, underlyingPrice, type) ==
  IF Falsy(strike) \/ Falsy(underlyingPrice) THEN "-"
  ELSE IF 50 * Abs(strike - underlyingPrice) <= Abs(underlyingPrice) THEN "ATM"
  ELSE IF type = "call"
       THEN (IF (strike - underlyingPrice) * underlyingPrice > 0 THEN "OTM" ELSE "ITM")
       ELSE (IF (strike - underlyingPrice) * underlyingPrice < 0 THEN "OTM" ELSE "ITM")

\* the day calculateDTE is called on (new Date(), hours set to 0)
Today == 20000
NoDate == 0

\* calculateDTE: Math.ceil((expiry - today) / ms per day), both at midnight
calculateDTE(expirationDate) == expirationDate - Today

\* lastQuote.midpoint ?? (bid && ask ? (bid + ask) / 2 : null)
MidOf(midpoint, bid, ask) ==
  IF midpoint # Null THEN midpoint
  ELSE IF ~Falsy(bid) /\ ~Falsy(ask) THEN (bid + ask) \div 2
  ELSE Null

\* as HasSpread, not testing the bid
HasSpread_AskAndMid(bid, ask, mid) == ask # Null /\ mid # Null /\ mid > 0

\* if (bid != null && ask != null && mid != null && mid > 0)
HasSpread(bid, ask, mid) == bid # Null /\ ask # Null /\ mid # Null /\ mid > 0

\* spreadPct = (spread / mid) * 100, kept as the fraction 100 * spread / mid;
\* a null spreadPct is the fraction with denominator 0
NullPct == [num |-> 0, den |-> 0]
SpreadPctOf(spread, mid) == [num |-> 100 * spread, den |-> mid]

\* details.underlying_ticker || underlying.ticker || raw._ticker || ''
UnderlyingTickerOf(raw) ==
  IF raw.underlying_ticker # Null /\ raw.underlying_ticker # NoTicker THEN raw.underlying_ticker
  ELSE IF raw.asset_ticker # Null /\ raw.asset_ticker # NoTicker THEN raw.asset_ticker
  ELSE IF raw._ticker # Null /\ raw._ticker # NoTicker THEN raw._ticker
  ELSE NoTicker

\* _normalizeContract(raw, universeMap)
normalizeContract(raw, universeMap) ==
  LET underlyingTicker == UnderlyingTickerOf(raw)
      bid == raw.bid
      ask == raw.ask
      mid == MidOf(raw.midpoint, bid, ask)
      has == HasSpread(bid, ask, mid)
      strike == raw.strike_price
      underlyingPrice == raw.asset_price
  IN [contractTicker |-> raw.details_ticker,
      underlying |-> underlyingTicker,
      type |-> raw.contract_type,
      strike |-> strike,
      expiration |-> raw.expiration_date,
      dte |-> IF raw.expiration_date # NoDate THEN calculateDTE(raw.expiration_date) ELSE Null,
      bid |-> bid, ask |-> ask, mid |-> mid, last |-> raw.price,
      spread |-> IF has THEN ask - bid ELSE Null,
      spreadPct |-> IF has THEN SpreadPctOf(ask - bid, mid) ELSE NullPct,
      iv |-> raw.implied_volatility,
      delta |-> raw.delta,
      volume |-> raw.volume,
      openInterest |-> raw.open_interest,
      underlyingPrice |-> underlyingPrice,
      moneyness |-> getMoneyness(strike, underlyingPrice, raw.contract_type),
      _meta |-> MetaOf(universeMap, underlyingTicker)]

(* ---------------- filters.js ---------------- *)
\* ivRange(min, max)
ivRange(min, max, contract) ==
  IF contract.iv = Null THEN TRUE ELSE contract.iv >= min /\ contract.iv <= max

\* deltaRange(min, max)
deltaRange(min, max, contract) ==
  IF contract.delta = Null THEN TRUE
  ELSE Abs(contract.delta) >= min /\ Abs(contract.delta) <= max

\* as minOpenInterest, excluding a contract without open interest
minOpenInterest_ExcludeNull(min, contract) ==
  contract.openInterest # Null /\ contract.openInterest >= min

\* minOpenInterest(min)
minOpenInterest(min, contract) ==
  IF contract.openInterest = Null THEN TRUE ELSE contract.openInterest >= min

\* minVolume(min)
minVolume(min, contract) ==
  IF contract.volume = Null THEN TRUE ELSE contract.volume >= min

\* as industry, excluding a contract without metadata
industry_ExcludeMissing(industries, contract) == contract._meta.industry \in industries

\* industry(industries)
industry(industries, contract) ==
  IF contract._meta.industry = "" THEN TRUE ELSE contract._meta.industry \in industries

\* country(countries)
country(countries, contract) ==
  IF contract._meta.country = "" THEN TRUE ELSE contract._meta.country \in countries

\* Number(x) of a numeric member: null counts as 0 in >= and <=
NullAsZero(x) == IF x = Null THEN 0 ELSE x

\* priceRange(min, max, field)
priceRangeOn(min, max, field, contract) ==
  LET price == contract[field]
  IN IF price = Null \/ price = 0 THEN FALSE ELSE price >= min /\ price <= max

\* hasPrice(field)
hasPriceOn(field, contract) == contract[field] # Null /\ contract[field] > 0

\* minDte(days), maxDte(days)
minDte(days, contract) == NullAsZero(contract.dte) >= days
maxDte(days, contract) == NullAsZero(contract.dte) <= days

\* maxSpread(maxSpreadPct), spreadPct being the fraction num / den
maxSpread(maxSpreadPct, contract) ==
  IF contract.spreadPct = NullPct THEN TRUE
  ELSE contract.spreadPct.num <= maxSpreadPct * contract.spreadPct.den

\* contractType(type)
contractTypeIs(type, contract) == contract.type = type

\* the predicates a chain is made of, each a closure over its arguments:
\* bounds, a list, or a string (a field name, a contract type)
FilterFn(name, min, max, allowed, text) ==
  [name |-> name, min |-> min, max |-> max, allowed |-> allowed, text |-> text]
IvRangeFn(min, max) == FilterFn("ivRange", min, max, {}, "")
DeltaRangeFn(min, max) == FilterFn("deltaRange", min, max, {}, "")
MinOpenInterestFn(min) == FilterFn("minOpenInterest", min, Null, {}, "")
MinVolumeFn(min) == FilterFn("minVolume", min, Null, {}, "")
IndustryFn(industries) == FilterFn("industry", Null, Null, industries, "")
CountryFn(countries) == FilterFn("country", Null, Null, countries, "")
PriceRangeFn(min, max, field) == FilterFn("priceRange", min, max, {}, field)
HasPriceFn(field) == FilterFn("hasPrice", Null, Null, {}, field)
MinDteFn(days) == FilterFn("minDte", days, Null, {}, "")
MaxDteFn(days) == FilterFn("maxDte", Null, days, {}, "")
MaxSpreadFn(maxSpreadPct) == FilterFn("maxSpread", Null, maxSpreadPct, {}, "")
ContractTypeFn(type) == FilterFn("contractType", Null, Null, {}, type)

\* fn(contract)
CallFilter(fn, contract) ==
  CASE fn.name = "ivRange" -> ivRange(fn.min, fn.max, contract)
    [] fn.name = "deltaRange" -> deltaRange(fn.min, fn.max, contract)
    [] fn.name = "minOpenInterest" -> minOpenInterest(fn.min, contract)
    [] fn.name = "minVolume" -> minVolume(fn.min, contract)
    [] fn.name = "industry" -> industry(fn.allowed, contract)
    [] fn.name = "country" -> country(fn.allowed, contract)
    [] fn.name = "priceRange" -> priceRangeOn(fn.min, fn.max, fn.text, contract)
    [] fn.name = "hasPrice" -> hasPriceOn(fn.text, contract)
    [] fn.name = "minDte" -> minDte(fn.min, contract)
    [] fn.name = "maxDte" -> maxDte(fn.max, contract)
    [] fn.name = "maxSpread" -> maxSpread(fn.max, contract)
    [] fn.name = "contractType" -> contractTypeIs(fn.text, contract)

\* as applyFilters, keeping a contract that some predicate accepts
applyFilters_Some(contracts, filterFns) ==
  SelectSeq(contracts, LAMBDA c : filterFns = <<>> \/
                                  \E i \in 1..Len(filterFns) : CallFilter(filterFns[i], c))

\* contracts.filter(contract => filterFns.every(fn => fn(contract)))
applyFilters(contracts, filterFns) ==
  SelectSeq(contracts, LAMBDA c : \A i \in 1..Len(filterFns) : CallFilter(filterFns[i], c))

ReverseOf(s) == [i \in 1..Len(s) |-> s[Len(s) + 1 - i]]

(* ---------------- the payloads and chains processed ---------------- *)
RawBase ==
  [details_ticker |-> 1, underlying_ticker |-> 1, asset_ticker |-> Null, _ticker |-> 1,
   strike_price |-> 100, contract_type |-> "call", expiration_date |-> Today + 30, bid |-> 10, ask |-> 20, midpoint |-> Null,
   price |-> 14, volume |-> 10, open_interest |-> 50, implied_volatility |-> 20, delta |-> 50,
   asset_price |-> 100]

\* quotes: bid, ask and provider midpoint each absent, zero or positive
QuoteCases ==
  {[RawBase EXCEPT !.bid = b, !.ask = a, !.midpoint = m] :
     b \in {Null, 0, 10}, a \in {Null, 0, 20}, m \in {Null, 0, 16}}

\* strikes around the 2% band of an underlying price of 100
StrikeCases ==
  {[RawBase EXCEPT !.strike_price = s, !.asset_price = u, !.contract_type = ty] :
     s \in {Null, 0, 96, 98, 102, 104}, u \in {Null, 0, 100}, ty \in {"call", "put"}}

\* open interest, volume, iv and delta, one at a time
LiquidityCases ==
  {[RawBase EXCEPT !.open_interest = v] : v \in {Null, 0, 49}}
  \cup {[RawBase EXCEPT !.volume = v] : v \in {Null, 0, 4}}
  \cup {[RawBase EXCEPT !.implied_volatility = v] : v \in {Null, 0, 120}}
  \cup {[RawBase EXCEPT !.delta = v] : v \in {Null, -50, 0, 20, 80}}

\* the underlying named by the details, by the asset, by the fetch, or not
TickerCases ==
  {[RawBase EXCEPT !.underlying_ticker = d, !.asset_ticker = a, !._ticker = t] :
     d \in {Null, 2, 3}, a \in {Null, 3}, t \in {NoTicker, 1, 2}}

RawCases == QuoteCases \cup StrikeCases \cup LiquidityCases \cup TickerCases

\* the contracts of the payloads of several contracts
FewRaw ==
  {RawBase,
   [RawBase EXCEPT !.details_ticker = 2, !.open_interest = Null, !.underlying_ticker = 3],
   [RawBase EXCEPT !.details_ticker = 3, !.implied_volatility = 120, !.underlying_ticker = 2]}

SeqsUpTo(S, n) == UNION {[1..k -> S] : k \in 0..n}

RawPayloads == {<<r>> : r \in RawCases} \cup SeqsUpTo(FewRaw, MaxContracts)

FilterFns ==
  {IvRangeFn(10, 100), DeltaRangeFn(30, 70), MinOpenInterestFn(50), MinOpenInterestFn(0),
   MinVolumeFn(5), IndustryFn({"Oil & Gas Integrated"}), CountryFn({"Canada"})}

FilterChains == SeqsUpTo(FilterFns, MaxFilters)

(* ---------------- processing one payload ---------------- *)
ProcessingInit ==
  /\ ScannerIdle
  /\ universe = ProcessingUniverse
  /\ concurrency = CONCURRENCY
  /\ maxRetries = MAX_RETRIES
  /\ CacheManagerInit
  /\ hasIndexedDB
  /\ UniverseUntouched
  /\ PageIdle
  /\ ChainIdle
  /\ rawInput \in RawPayloads
  /\ filterChain \in FilterChains
  /\ normalizedContracts = <<>>
  /\ filteredContracts = <<>>
  /\ filteredAgain = <<>>
  /\ filteredReordered = <<>>
  /\ processed = {}

\* rawContracts.map(raw => this._normalizeContract(raw, universeMap))
Normalize ==
  /\ processed = {}
  /\ normalizedContracts' =
       [i \in 1..Len(rawInput) |-> normalizeContract(rawInput[i], BuildUniverseMap(universe))]
  /\ processed' = {"normalize"}
  /\ UNCHANGED <<scanVars, cacheVars, editVars, uiVars, chainVars, rawInput, filterChain, filteredContracts, filteredAgain,
                 filteredReordered>>

\* applyFilters(normalizedContracts, ...filterChain)
Filter ==
  /\ processed = {"normalize"}
  /\ filteredContracts' = applyFilters(normalizedContracts, filterChain)
  /\ processed' = processed \cup {"filter"}
  /\ UNCHANGED <<scanVars, cacheVars, editVars, uiVars, chainVars, rawInput, filterChain, normalizedContracts, filteredAgain,
                 filteredReordered>>

\* applyFilters(filteredContracts, ...filterChain)
FilterAgain ==
  /\ processed = {"normalize", "filter"}
  /\ filteredAgain' = applyFilters(filteredContracts, filterChain)
  /\ processed' = processed \cup {"again"}
  /\ UNCHANGED <<scanVars, cacheVars, editVars, uiVars, chainVars, rawInput, filterChain, normalizedContracts,
                 filteredContracts, filteredReordered>>

\* applyFilters(normalizedContracts, ...filterChain.reverse())
FilterReordered ==
  /\ processed = {"normalize", "filter", "again"}
  /\ filteredReordered' = applyFilters(normalizedContracts, ReverseOf(filterChain))
  /\ processed' = processed \cup {"reordered"}
  /\ UNCHANGED <<scanVars, cacheVars, editVars, uiVars, chainVars, rawInput, filterChain, normalizedContracts,
                 filteredContracts, filteredAgain>>

ProcessingNext == Normalize \/ Filter \/ FilterAgain \/ FilterReordered

ProcessingSpec == ProcessingInit /\ [][ProcessingNext]_vars


(***************************************************************************)
(* Properties of contract processing.                                      *)
(***************************************************************************)
Normalized == "normalize" \in processed

\* C24: in every normalized contract, spread and spreadPct are null when the
\* bid or the ask is null, and they are non-null only when bid, ask and a
\* mid greater than 0 are all present.
C24_SpreadNeedsQuote ==
  Normalized =>
    \A i \in 1..Len(normalizedContracts) :
      LET c == normalizedContracts[i]
      IN /\ (c.bid = Null \/ c.ask = Null) => (c.spread = Null /\ c.spreadPct = NullPct)
         /\ (c.spread # Null \/ c.spreadPct # NullPct) =>
              (c.bid # Null /\ c.ask # Null /\ c.mid # Null /\ c.mid > 0)

\* a contract without a bid whose ask and provider midpoint are present has
\* been normalized, and has no spread
C24_Witness ==
  /\ Normalized
  /\ \E i \in 1..Len(normalizedContracts) :
       LET c == normalizedContracts[i]
       IN c.bid = Null /\ c.ask = 20 /\ c.mid = 16 /\ c.spread = Null /\ c.spreadPct = NullPct


\* C25: every normalized contract with a non-null strike and a non-null
\* underlying price, a strike of 0 included, has a moneyness of ITM, ATM or
\* OTM, and it is ATM exactly when |strike - underlyingPrice| /
\* underlyingPrice <= 0.02.
C25_MoneynessClassified ==
  Normalized =>
    \A i \in 1..Len(normalizedContracts) :
      LET c == normalizedContracts[i]
      IN (c.strike # Null /\ c.underlyingPrice # Null) =>
           /\ c.moneyness \in {"ITM", "ATM", "OTM"}
           /\ c.underlyingPrice > 0 =>
                (c.moneyness = "ATM" <=>
                   50 * (IF c.strike < c.underlyingPrice THEN c.underlyingPrice - c.strike
                         ELSE c.strike - c.underlyingPrice) <= c.underlyingPrice)


Filtered == "filter" \in processed

BoundedKinds == {"minOpenInterest", "minVolume", "ivRange", "deltaRange"}

\* the value a bound is about
BoundedValue(f, c) ==
  CASE f.name = "minOpenInterest" -> c.openInterest
    [] f.name = "minVolume" -> c.volume
    [] f.name = "ivRange" -> c.iv
    [] f.name = "deltaRange" -> c.delta

\* whether a value that is present satisfies the bound (delta by magnitude)
SatisfiesBound(f, v) ==
  CASE f.name \in {"minOpenInterest", "minVolume"} -> v >= f.min
    [] f.name = "ivRange" -> f.min <= v /\ v <= f.max
    [] f.name = "deltaRange" -> \E m \in {v, -v} : m >= 0 /\ f.min <= m /\ m <= f.max

NullOrWithin(f, c) == BoundedValue(f, c) = Null \/ SatisfiesBound(f, BoundedValue(f, c))

\* C26: a contract whose openInterest, volume, iv or delta is null is never
\* excluded by the minOpenInterest, minVolume, ivRange or deltaRange
\* predicate, whatever the bound; a value that is present passes exactly
\* when it satisfies the bound.  So a chain of such predicates keeps exactly
\* the contracts each of whose bounded values is null or within its bound.
C26_NullPermissiveBounds ==
  Filtered =>
    /\ \A i \in 1..Len(filteredContracts) : \A k \in 1..Len(filterChain) :
         filterChain[k].name \in BoundedKinds =>
           NullOrWithin(filterChain[k], filteredContracts[i])
    /\ (\A k \in 1..Len(filterChain) : filterChain[k].name \in BoundedKinds) =>
         filteredContracts =
           SelectSeq(normalizedContracts,
                     LAMBDA c : \A k \in 1..Len(filterChain) : NullOrWithin(filterChain[k], c))

\* minOpenInterest(50) alone has filtered two contracts, and has kept one
\* that has no open interest
C26_Witness ==
  /\ Filtered
  /\ filterChain = <<MinOpenInterestFn(50)>>
  /\ Len(normalizedContracts) = 2
  /\ \E i \in 1..Len(filteredContracts) : filteredContracts[i].openInterest = Null


NoMetadata == [company |-> "", industry |-> "", country |-> ""]

\* what an allow-list is about
ListedValue(f, c) == IF f.name = "industry" THEN c._meta.industry ELSE c._meta.country

EmptyOrAllowed(f, c) == ListedValue(f, c) = "" \/ ListedValue(f, c) \in f.allowed

\* C27: a contract whose underlying ticker has no entry in the universe gets
\* metadata with empty company, industry and country, and an industry or
\* country allow-list never excludes it; a contract with a non-empty
\* industry (country) passes the allow-list exactly when the value is in
\* the allowed set.
C27_MissingMetadataPermissive ==
  /\ Normalized =>
       \A i \in 1..Len(normalizedContracts) :
         (\A j \in 1..Len(universe) : universe[j].ticker # normalizedContracts[i].underlying)
           => normalizedContracts[i]._meta = NoMetadata
  /\ Filtered =>
       /\ \A i \in 1..Len(filteredContracts) : \A k \in 1..Len(filterChain) :
            filterChain[k].name \in {"industry", "country"} =>
              EmptyOrAllowed(filterChain[k], filteredContracts[i])
       /\ (\A k \in 1..Len(filterChain) : filterChain[k].name \in {"industry", "country"}) =>
            filteredContracts =
              SelectSeq(normalizedContracts,
                        LAMBDA c : \A k \in 1..Len(filterChain) : EmptyOrAllowed(filterChain[k], c))

\* an industry and a country allow-list have filtered two contracts: kept the
\* one whose underlying is not in the universe, excluded the one of another
\* country
C27_Witness ==
  /\ Filtered
  /\ filterChain = <<IndustryFn({"Oil & Gas Integrated"}), CountryFn({"Canada"})>>
  /\ Len(normalizedContracts) = 2
  /\ Len(filteredContracts) = 1
  /\ filteredContracts[1].underlying = 3
  /\ filteredContracts[1]._meta = NoMetadata
  /\ \E i \in 1..2 : normalizedContracts[i]._meta.country = "USA"


\* what each predicate of a chain decides
Holds(f, c) == IF f.name \in BoundedKinds THEN NullOrWithin(f, c) ELSE EmptyOrAllowed(f, c)

HoldsAll(c) == \A k \in 1..Len(filterChain) : Holds(filterChain[k], c)

\* C28: applyFilters returns exactly the contracts for which every predicate
\* of the chain is true, in their input order and unmodified; hence the
\* result is the same with the predicates in another order, an empty chain
\* returns its input, and the same chain applied to the result excludes
\* nothing further.
C28_FilterIsConjunction ==
  /\ Filtered =>
       /\ filteredContracts = SelectSeq(normalizedContracts, HoldsAll)
       /\ filterChain = <<>> => filteredContracts = normalizedContracts
  /\ "again" \in processed => filteredAgain = filteredContracts
  /\ "reordered" \in processed => filteredReordered = filteredContracts

\* a chain of two different predicates has been applied to two contracts in
\* both orders and twice over: one contract is kept, the other passes the
\* first predicate and fails the second
C28_Witness ==
  /\ "reordered" \in processed
  /\ Len(filterChain) = 2
  /\ filterChain[1] # filterChain[2]
  /\ Len(normalizedContracts) = 2
  /\ Len(filteredContracts) = 1
  /\ \E i \in 1..2 : /\ Holds(filterChain[1], normalizedContracts[i])
                     /\ ~Holds(filterChain[2], normalizedContracts[i])


\* C30: without a provider midpoint, mid is (bid + ask) / 2 whenever bid and
\* ask are both present, also when one of them is 0, and mid is null when
\* either is absent; a provider midpoint that is present is used as is.
C30_MidFromQuote ==
  Normalized =>
    \A i \in 1..Len(normalizedContracts) :
      LET r == rawInput[i]
          c == normalizedContracts[i]
      IN /\ r.midpoint # Null => c.mid = r.midpoint
         /\ (r.midpoint = Null /\ r.bid # Null /\ r.ask # Null) =>
              (c.mid # Null /\ 2 * c.mid = r.bid + r.ask)
         /\ (r.midpoint = Null /\ (r.bid = Null \/ r.ask = Null)) => c.mid = Null


(***************************************************************************)
(* Further properties of the scan.                                         *)
(***************************************************************************)
\* C39: in _fetchWithRetry every backoff wait is followed by another request
\* to the same URL; after the last permitted attempt has failed with 429 or
\* a status >= 500 the call fails without a further wait.  So a wait is in
\* progress only while an attempt is left.
C39_NoWaitAfterLastAttempt ==
  \A t \in Tickers : pc[t] = "backoff" => attempt[t] + 1 < maxRetries


\* the steps of a scan in progress that are not the user's: a response
\* arrives, a timer fires, a settled promise is acted upon
ScanStep ==
  \/ \E t \in Tickers : FetchResponseOk(t)
  \/ \E t \in Tickers : FetchResponseError(t)
  \/ \E t \in Tickers : RetryWake(t)
  \/ \E t \in Tickers : NextPageWake(t)
  \/ CollectBatch
  \/ NextBatchWake
  \/ ScanProcess

\* the guards of these steps: a request is in flight or a timer is running,
\* the promises of the batch have all settled, or the client has returned
\* to scan().  It is ENABLED <<ScanStep>>_vars, as TLC confirms of this
\* model (ScanStepEnabledIsExact), written out because guards are cheap to
\* evaluate where ENABLED is not.
ScanStepEnabled ==
  \/ \E t \in Tickers : pc[t] \in {"await", "backoff", "pageDelay"}
  \/ apiPc = "awaitBatch" /\ \A t \in InBatch(batchIdx) : pc[t] = "settled"
  \/ apiPc = "batchDelay"
  \/ scanPc = "fetching" /\ apiPc = "returned"

ScanStepEnabledIsExact == ScanStepEnabled <=> ENABLED <<ScanStep>>_vars

\* Every request receives a response and every timer fires: while a step of
\* the scan is possible, one is eventually taken.  This is WF_vars(ScanStep)
\* with the enabling condition written out.  The user's steps (Scan,
\* ScanReturn, setUniverse) are under no obligation.
ScanFairness == []<>(~ScanStepEnabled) \/ []<><<ScanStep>>_vars

FairSpec == Init /\ [][Next]_vars /\ ScanFairness

\* C38: if every request receives a response and every chain of next_url
\* pages is finite, every scan() invocation terminates, whatever the ticker
\* list, the concurrency and the failures of its requests, and no ticker is
\* left waiting forever.
C38_ScanTerminates ==
  /\ (scanPc = "fetching") ~> (scanPc = "complete")
  /\ \A t \in Tickers :
       (pc[t] \in {"await", "backoff", "pageDelay"}) ~> (pc[t] \in {"settled", "collected"})

\* a scan of two tickers has completed: one ticker failed, the other
\* delivered contracts
C38_Witness ==
  /\ scanPc = "complete"
  /\ Len(tickers) = 2
  /\ errors # <<>>
  /\ Len(allResults) > 0


(***************************************************************************)
(* Further properties of the cache.                                        *)
(***************************************************************************)
\* C35: if saveScan returns null because the write failed, the stored
\* snapshots are those stored before the call: what was evicted to make room
\* is not lost when the new entry is not written.
C35_FailedSaveLosesNothing ==
  (returned[1].op = "saveScan" /\ returned[1].failed) => store = storeBefore[1]


(***************************************************************************)
(* The universe's editing methods, called while no scan is in progress.    *)
(***************************************************************************)
MaxAdded == 2

\* the lists addToUniverse and removeFromUniverse are given: ticker objects
\* and ticker symbols, a ticker possibly more than once
TickerLists == SeqsUpTo({[ticker |-> t] : t \in Tickers}, MaxAdded)
SymbolLists == SeqsUpTo(Tickers, MaxAdded)

\* [...this.universe]: a new array of the same elements
SpreadCopy(u) == [shared |-> FALSE, items |-> u]

\* existing = new Set(this.universe.map(u => u.ticker));
\* newTickers = tickers.filter(t => !existing.has(t.ticker));
\* this.universe = [...this.universe, ...newTickers]
addToUniverse ==
  /\ scanPc = "idle"
  /\ \E list \in TickerLists :
       LET existing == {universe[i].ticker : i \in 1..Len(universe)}
           newTickers == SelectSeq(list, LAMBDA t : t.ticker \notin existing)
       IN /\ universe' = universe \o newTickers
          /\ removedTickers' = removedTickers \ {list[i].ticker : i \in 1..Len(list)}
  /\ held' = [held EXCEPT !.shared = FALSE]
  /\ UNCHANGED <<paramTickers, tickers, concurrency, maxRetries, scanPc, apiVars, taskVars,
                 obsVars, batchDelays, servedOk, servedFailed, logVars, rawContracts, result,
                 cacheVars, pipeVars, uiVars>>

\* toRemove = new Set(tickerSymbols);
\* this.universe = this.universe.filter(u => !toRemove.has(u.ticker))
removeFromUniverse ==
  /\ scanPc = "idle"
  /\ \E tickerSymbols \in SymbolLists :
       LET toRemove == {tickerSymbols[i] : i \in 1..Len(tickerSymbols)}
       IN /\ universe' = SelectSeq(universe, LAMBDA u : u.ticker \notin toRemove)
          /\ removedTickers' = removedTickers \cup toRemove
  /\ held' = [held EXCEPT !.shared = FALSE]
  /\ UNCHANGED <<paramTickers, tickers, concurrency, maxRetries, scanPc, apiVars, taskVars,
                 obsVars, batchDelays, servedOk, servedFailed, logVars, rawContracts, result,
                 cacheVars, pipeVars, uiVars>>

\* getUniverse(): the caller holds what it returns
getUniverse ==
  /\ scanPc = "idle"
  /\ held' = SpreadCopy(universe)
  /\ UNCHANGED <<scanVars, cacheVars, pipeVars, uiVars, removedTickers>>

\* the caller modifies the array it holds (pop): the scanner's array changes
\* with it if it is the same array
ModifyHeld ==
  /\ held.items # <<>>
  /\ held' = [held EXCEPT !.items = SubSeq(@, 1, Len(@) - 1)]
  /\ universe' = IF held.shared THEN held'.items ELSE universe
  /\ UNCHANGED <<paramTickers, tickers, concurrency, maxRetries, scanPc, apiVars, taskVars,
                 obsVars, batchDelays, servedOk, servedFailed, logVars, rawContracts, result,
                 cacheVars, pipeVars, uiVars, removedTickers>>

UniverseInit == Init /\ concurrency = CONCURRENCY /\ maxRetries = MAX_RETRIES

UniverseNext == addToUniverse \/ removeFromUniverse \/ getUniverse \/ ModifyHeld

UniverseSpec == UniverseInit /\ [][UniverseNext]_vars

\* C37: from a universe without duplicate tickers, after any addToUniverse
\* and removeFromUniverse calls (a call may be given a list that repeats a
\* ticker) the universe has no duplicate ticker and no ticker that was
\* removed and not added again; and modifying what getUniverse returned does
\* not change the scanner's universe.
C37_UniverseStaysASet ==
  [][/\ \A i, j \in 1..Len(universe') : universe'[i].ticker = universe'[j].ticker => i = j
     /\ \A i \in 1..Len(universe') : universe'[i].ticker \notin removedTickers'
     /\ held'.items # held.items => universe' = universe]_vars


(***************************************************************************)
(* The page: runScan and the events that invoke it.  An invocation awaits  *)
(* scanner.scan, then cacheManager.saveScan; between the two awaits other  *)
(* events are handled.                                                     *)
(***************************************************************************)
\* the page before its initialisation has created the scanner, or after
PageInit ==
  /\ ScannerInit /\ concurrency = CONCURRENCY /\ maxRetries = MAX_RETRIES
  /\ universe = <<>>
  /\ CacheManagerInit /\ hasIndexedDB
  /\ ProcessingIdle
  /\ UniverseUntouched
  /\ scanner \in BOOLEAN
  /\ scanBtnDisabled = FALSE
  /\ forceRefresh = FALSE
  /\ runPc = [i \in Runs |-> "idle"]
  /\ currentResults = 0

\* scanner = new OptionsScanner(...)
CreateScanner ==
  /\ ~scanner
  /\ scanner' = TRUE
  /\ UNCHANGED <<scanVars, cacheVars, pipeVars, editVars, scanBtnDisabled, forceRefresh, runPc,
                 currentResults>>

\* runScan() up to `await scanner.scan(params, showProgress)`: without a
\* scanner it returns; else it disables the Scan button and starts the scan
runScan ==
  /\ scanner
  /\ \E i \in Runs :
       /\ runPc[i] = "idle"
       /\ \A j \in Runs : j < i => runPc[j] # "idle"
       /\ runPc' = [runPc EXCEPT ![i] = "scanning"]
  /\ scanBtnDisabled' = TRUE

\* a click on the Scan button: a disabled button dispatches no click
ScanButtonClick ==
  /\ ~scanBtnDisabled
  /\ runScan
  /\ UNCHANGED <<scanVars, cacheVars, pipeVars, editVars, scanner, forceRefresh, currentResults>>

\* keypress of Enter in an input
EnterInInput ==
  /\ runScan
  /\ UNCHANGED <<scanVars, cacheVars, pipeVars, editVars, scanner, forceRefresh, currentResults>>

\* a click on the force refresh button of the settings menu
ForceRefreshClick ==
  /\ forceRefresh' = TRUE
  /\ runScan
  /\ UNCHANGED <<scanVars, cacheVars, pipeVars, editVars, scanner, currentResults>>

\* scanner.scan resolves: currentResults = results, displayResults, then up
\* to `await cacheManager.saveScan(...)`
ScanResolved(i) ==
  /\ runPc[i] = "scanning"
  /\ runPc' = [runPc EXCEPT ![i] = "saving"]
  /\ currentResults' = i
  /\ UNCHANGED <<scanVars, cacheVars, pipeVars, editVars, scanner, scanBtnDisabled, forceRefresh>>

\* scanner.scan rejects: catch (showError), finally (re-enable the button)
ScanRejected(i) ==
  /\ runPc[i] = "scanning"
  /\ runPc' = [runPc EXCEPT ![i] = "done"]
  /\ scanBtnDisabled' = FALSE
  /\ UNCHANGED <<scanVars, cacheVars, pipeVars, editVars, scanner, forceRefresh, currentResults>>

\* saveScan resolves: updateCacheUI, forceRefresh = false, finally
SaveResolved(i) ==
  /\ runPc[i] = "saving"
  /\ runPc' = [runPc EXCEPT ![i] = "done"]
  /\ forceRefresh' = FALSE
  /\ scanBtnDisabled' = FALSE
  /\ UNCHANGED <<scanVars, cacheVars, pipeVars, editVars, scanner, currentResults>>

PageNext ==
  \/ CreateScanner
  \/ ScanButtonClick
  \/ EnterInInput
  \/ ForceRefreshClick
  \/ \E i \in Runs : ScanResolved(i)
  \/ \E i \in Runs : ScanRejected(i)
  \/ \E i \in Runs : SaveResolved(i)

PageSpec == PageInit /\ [][PageNext]_vars

\* C36: at most one scan started through runScan is in progress at any
\* time: while one is running no user event starts a second.
C36_OneScanAtATime ==
  Cardinality({i \in Runs : runPc[i] \in {"scanning", "saving"}}) <= 1


(***************************************************************************)
(* Building the filter chain from scan parameters and sorting the result   *)
(* (filters.js createFilterChain, app.js _sortContracts), applied in the   *)
(* order scan() applies them: normalize, build the chain, filter, sort.    *)
(* In the parameters Null stands for null or an absent member, "" for an   *)
(* absent or empty string, and an array is NoArray or a list of items.     *)
(***************************************************************************)
\* the default of an unbounded maximum: larger than every value of the model
Infinity == 1000000

ArrayParam(items) == [kind |-> "array", items |-> items]
ItemsOf(array) == {array.items[i] : i \in 1..Len(array.items)}

\* x ?? d
OrElse(x, d) == IF x = Null THEN d ELSE x

\* createFilterChain(params)
createFilterChain(params) ==
  (IF params.priceMin # Null \/ params.priceMax # Null
     THEN <<PriceRangeFn(OrElse(params.priceMin, 0), OrElse(params.priceMax, Infinity),
                         IF params.priceField # "" THEN params.priceField ELSE "ask")>>
     ELSE <<>>)
  \o (IF params.priceField # "" THEN <<HasPriceFn(params.priceField)>> ELSE <<>>)
  \o (IF params.dteMin # Null THEN <<MinDteFn(params.dteMin)>> ELSE <<>>)
  \o (IF params.dteMax # Null THEN <<MaxDteFn(params.dteMax)>> ELSE <<>>)
  \o (IF params.ivMin # Null \/ params.ivMax # Null
        THEN <<IvRangeFn(OrElse(params.ivMin, 0), OrElse(params.ivMax, Infinity))>>
        ELSE <<>>)
  \o (IF params.deltaMin # Null \/ params.deltaMax # Null
        THEN <<DeltaRangeFn(OrElse(params.deltaMin, 0), OrElse(params.deltaMax, 100))>>
        ELSE <<>>)
  \o (IF params.minOpenInterest # Null /\ params.minOpenInterest > 0
        THEN <<MinOpenInterestFn(params.minOpenInterest)>> ELSE <<>>)
  \o (IF params.minVolume # Null /\ params.minVolume > 0
        THEN <<MinVolumeFn(params.minVolume)>> ELSE <<>>)
  \o (IF params.maxSpreadPct # Null THEN <<MaxSpreadFn(params.maxSpreadPct)>> ELSE <<>>)
  \o (IF params.contractType # "" THEN <<ContractTypeFn(params.contractType)>> ELSE <<>>)
  \o (IF params.industries.kind = "array" /\ Len(params.industries.items) > 0
        THEN <<IndustryFn(ItemsOf(params.industries))>> ELSE <<>>)
  \o (IF params.countries.kind = "array" /\ Len(params.countries.items) > 0
        THEN <<CountryFn(ItemsOf(params.countries))>> ELSE <<>>)

\* the members of a contract that hold strings: a symbol, a date, a type.
\* An absent one is '', never null.
StringFields == {"contractTicker", "underlying", "expiration", "type", "moneyness"}

\* aVal == null
IsNullValue(field, value) == IF field \in StringFields THEN FALSE ELSE value = Null

\* aVal - bVal: the difference of two numbers; of two strings that are not
\* numerals it is NaN, which sort() takes as 0
Difference(field, aVal, bVal) == IF field \in StringFields THEN 0 ELSE aVal - bVal

\* as sortComparator, ordering a null value by the direction like a zero
sortComparator_NullAsZero(a, b, field, direction) ==
  LET aVal == IF IsNullValue(field, a[field]) THEN 0 ELSE a[field]
      bVal == IF IsNullValue(field, b[field]) THEN 0 ELSE b[field]
  IN IF direction = "asc" THEN Difference(field, aVal, bVal)
     ELSE Difference(field, bVal, aVal)

\* the comparator _sortContracts passes to sort()
sortComparator(a, b, field, direction) ==
  LET aVal == a[field]
      bVal == b[field]
  IN IF IsNullValue(field, aVal) /\ IsNullValue(field, bVal) THEN 0
     ELSE IF IsNullValue(field, aVal) THEN 1
     ELSE IF IsNullValue(field, bVal) THEN -1
     ELSE IF direction = "asc" THEN Difference(field, aVal, bVal)
     ELSE Difference(field, bVal, aVal)

\* [...contracts].sort(comparator): a stable sort of a copy
RECURSIVE sortContractsBy(_, _, _)
sortContractsBy(contracts, field, direction) ==
  IF contracts = <<>> THEN <<>>
  ELSE LET n == Len(contracts)
           x == contracts[n]
           sorted == sortContractsBy(SubSeq(contracts, 1, n - 1), field, direction)
           k == Cardinality({j \in 1..Len(sorted) :
                               sortComparator(sorted[j], x, field, direction) <= 0})
       IN SubSeq(sorted, 1, k) \o <<x>> \o SubSeq(sorted, k + 1, Len(sorted))

\* raw contracts differing in price, symbol, expiry and liquidity
ChainRawCases ==
  {RawBase,
   [RawBase EXCEPT !.ask = Null, !.underlying_ticker = 2, !.volume = Null],
   [RawBase EXCEPT !.ask = 0, !.price = 0],
   [RawBase EXCEPT !.ask = -6, !.price = -4],
   [RawBase EXCEPT !.ask = 10, !.underlying_ticker = 3, !.contract_type = "put"],
   [RawBase EXCEPT !.ask = 40, !.price = Null, !.underlying_ticker = 2,
                   !.expiration_date = Today + 5],
   [RawBase EXCEPT !.ask = 30, !.open_interest = 0, !.volume = 0,
                   !.expiration_date = NoDate],
   [RawBase EXCEPT !.underlying_ticker = 2, !.open_interest = Null,
                   !.implied_volatility = Null, !.expiration_date = Today + 15]}

ChainPayloads == SeqsUpTo(ChainRawCases, MaxContracts)

\* the price group: each bound absent, negative, zero or positive
PriceParamCases ==
  {[NoParams EXCEPT !.priceMin = lo, !.priceMax = hi, !.priceField = f] :
     lo \in {Null, -10, 0, 10}, hi \in {Null, 30}, f \in {"", "ask", "last"}}

\* every other group alone, with a zero and a non-zero value where it has one
GroupParamCases ==
  {[NoParams EXCEPT !.dteMin = 10], [NoParams EXCEPT !.dteMin = 0],
   [NoParams EXCEPT !.dteMax = 20],
   [NoParams EXCEPT !.ivMin = 10], [NoParams EXCEPT !.ivMax = 100],
   [NoParams EXCEPT !.deltaMin = 30], [NoParams EXCEPT !.deltaMax = 70],
   [NoParams EXCEPT !.minOpenInterest = 0], [NoParams EXCEPT !.minOpenInterest = 50],
   [NoParams EXCEPT !.minVolume = 0], [NoParams EXCEPT !.minVolume = 5],
   [NoParams EXCEPT !.maxSpreadPct = 50], [NoParams EXCEPT !.maxSpreadPct = 0],
   [NoParams EXCEPT !.contractType = "call"], [NoParams EXCEPT !.contractType = "put"],
   [NoParams EXCEPT !.industries = ArrayParam(<<>>)],
   [NoParams EXCEPT !.industries = ArrayParam(<<"Oil & Gas Integrated">>)],
   [NoParams EXCEPT !.countries = ArrayParam(<<"Canada">>)]}

\* the parameters scan() merges from an empty request (CONFIG.DEFAULTS)
DefaultParams ==
  [NoParams EXCEPT !.contractType = "call", !.priceMin = PRICE_MIN, !.priceMax = PRICE_MAX,
                   !.priceField = "last", !.deltaMin = 0, !.deltaMax = 100,
                   !.ivMin = 0, !.ivMax = 100, !.minOpenInterest = 0, !.minVolume = 0]

SortFields == {"ask", "last", "volume", "underlying", "expiration"}
SortDirections == {"asc", "desc"}

SortParamCases ==
  {[p EXCEPT !.sortBy = f, !.sortDir = d] :
     p \in {NoParams, [NoParams EXCEPT !.minVolume = 0]}, f \in SortFields,
     d \in SortDirections}

ParamCases == PriceParamCases \cup GroupParamCases \cup {DefaultParams} \cup SortParamCases

ChainInit ==
  /\ ScannerIdle
  /\ universe = ProcessingUniverse
  /\ concurrency = CONCURRENCY
  /\ maxRetries = MAX_RETRIES
  /\ CacheManagerInit
  /\ hasIndexedDB
  /\ UniverseUntouched
  /\ PageIdle
  /\ scanParams \in ParamCases
  /\ builtChain = <<>>
  /\ sortedResult = <<>>
  /\ rawInput \in ChainPayloads
  /\ filterChain = <<>>
  /\ normalizedContracts = <<>>
  /\ filteredContracts = <<>>
  /\ filteredAgain = <<>>
  /\ filteredReordered = <<>>
  /\ processed = {}

\* const filterChain = createFilterChain(scanParams)
BuildChain ==
  /\ processed = {"normalize"}
  /\ builtChain' = createFilterChain(scanParams)
  /\ processed' = processed \cup {"chain"}
  /\ UNCHANGED <<scanVars, cacheVars, editVars, uiVars, scanParams, sortedResult, rawInput,
                 filterChain, normalizedContracts, filteredContracts, filteredAgain,
                 filteredReordered>>

\* const filteredContracts = applyFilters(normalizedContracts, ...filterChain)
FilterBuilt ==
  /\ processed = {"normalize", "chain"}
  /\ filteredContracts' = applyFilters(normalizedContracts, builtChain)
  /\ processed' = processed \cup {"filterBuilt"}
  /\ UNCHANGED <<scanVars, cacheVars, editVars, uiVars, chainVars, rawInput, filterChain,
                 normalizedContracts, filteredAgain, filteredReordered>>

\* const sortedContracts = this._sortContracts(filteredContracts, sortBy, sortDir)
SortFiltered ==
  /\ processed = {"normalize", "chain", "filterBuilt"}
  /\ sortedResult' = sortContractsBy(filteredContracts, scanParams.sortBy, scanParams.sortDir)
  /\ processed' = processed \cup {"sort"}
  /\ UNCHANGED <<scanVars, cacheVars, editVars, uiVars, scanParams, builtChain, rawInput,
                 filterChain, normalizedContracts, filteredContracts, filteredAgain,
                 filteredReordered>>

ChainNext == Normalize \/ BuildChain \/ FilterBuilt \/ SortFiltered

ChainSpec == ChainInit /\ [][ChainNext]_vars


ChainBuilt == "chain" \in processed

\* the chain holds a predicate of this name
Emits(name) == \E i \in 1..Len(builtChain) : builtChain[i].name = name

\* C31: createFilterChain emits a predicate for a parameter group exactly
\* when the group's parameters are non-null: parameters that are all null or
\* absent yield the empty chain, and every non-null parameter, a zero
\* minOpenInterest or minVolume included, yields its predicate.
C31_PredicatePerNonNullGroup ==
  ChainBuilt =>
    /\ Emits("priceRange") <=> (scanParams.priceMin # Null \/ scanParams.priceMax # Null)
    /\ Emits("hasPrice") <=> scanParams.priceField # ""
    /\ Emits("minDte") <=> scanParams.dteMin # Null
    /\ Emits("maxDte") <=> scanParams.dteMax # Null
    /\ Emits("ivRange") <=> (scanParams.ivMin # Null \/ scanParams.ivMax # Null)
    /\ Emits("deltaRange") <=> (scanParams.deltaMin # Null \/ scanParams.deltaMax # Null)
    /\ Emits("minOpenInterest") <=> scanParams.minOpenInterest # Null
    /\ Emits("minVolume") <=> scanParams.minVolume # Null
    /\ Emits("maxSpread") <=> scanParams.maxSpreadPct # Null
    /\ Emits("contractType") <=> scanParams.contractType # ""
    /\ Emits("industry") <=> scanParams.industries.kind # "null"
    /\ Emits("country") <=> scanParams.countries.kind # "null"


FilteredByChain == "filterBuilt" \in processed

\* C32: priceRange(min, max, field) excludes every contract whose value on
\* the field is null or <= 0, whatever min and max are, a negative min
\* included, and otherwise passes exactly the contracts with
\* min <= value <= max.  Stated on chains that consist of the price
\* predicate alone, where the filtered list shows what it passes.
C32_PriceRangeExcludesNonPositive ==
  (FilteredByChain /\ Len(builtChain) = 1 /\ builtChain[1].name = "priceRange") =>
    LET fn == builtChain[1]
        InRange(c) == /\ c[fn.text] # Null
                      /\ c[fn.text] > 0
                      /\ fn.min <= c[fn.text]
                      /\ c[fn.text] <= fn.max
    IN filteredContracts = SelectSeq(normalizedContracts, InRange)


Sorted == "sort" \in processed

\* how often a contract occurs in a list
Occurrences(list, c) == Cardinality({i \in 1..Len(list) : list[i] = c})

\* C33: _sortContracts returns a permutation of its input and leaves the
\* input list as it was; in the result every contract whose sort field is
\* null comes after every contract whose sort field is non-null, for 'asc'
\* and for 'desc', and the non-null numeric values ascend for 'asc' and
\* descend for 'desc'.
C33_SortedNullsLast ==
  Sorted =>
    LET field == scanParams.sortBy
        IsNull(c) == IsNullValue(field, c[field])
    IN /\ filteredContracts = applyFilters(normalizedContracts, builtChain)
       /\ Len(sortedResult) = Len(filteredContracts)
       /\ \A i \in 1..Len(filteredContracts) :
            Occurrences(sortedResult, filteredContracts[i])
              = Occurrences(filteredContracts, filteredContracts[i])
       /\ \A i, j \in 1..Len(sortedResult) :
            (i < j /\ IsNull(sortedResult[i])) => IsNull(sortedResult[j])
       /\ field \notin StringFields =>
            \A i, j \in 1..Len(sortedResult) :
              (i < j /\ ~IsNull(sortedResult[i]) /\ ~IsNull(sortedResult[j])) =>
                IF scanParams.sortDir = "asc"
                  THEN sortedResult[i][field] <= sortedResult[j][field]
                  ELSE sortedResult[i][field] >= sortedResult[j][field]

\* a descending sort by ask has moved a contract without an ask behind one
\* that has one
C33_Witness ==
  /\ Sorted
  /\ scanParams.sortBy = "ask"
  /\ scanParams.sortDir = "desc"
  /\ Len(filteredContracts) = 2
  /\ filteredContracts[1].ask = Null
  /\ filteredContracts[2].ask # Null
  /\ sortedResult = <<filteredContracts[2], filteredContracts[1]>>


\* C34: when the sort field holds strings, _sortContracts orders the
\* contracts lexicographically by it, ascending for 'asc' and descending
\* for 'desc'.  Stated for the underlying symbol and the expiration date;
\* the numbers that stand for symbols follow their alphabetical order, and
\* YYYY-MM-DD dates are ordered as their days are.
C34_StringsSortedLexicographically ==
  (Sorted /\ scanParams.sortBy \in {"underlying", "expiration"}) =>
    \A i, j \in 1..Len(sortedResult) :
      i < j =>
        IF scanParams.sortDir = "asc"
          THEN sortedResult[i][scanParams.sortBy] <= sortedResult[j][scanParams.sortBy]
          ELSE sortedResult[i][scanParams.sortBy] >= sortedResult[j][scanParams.sortBy]
====
